---- MODULE Spec2Model ----
(***************************************************************************)
(* Verification model of sp-graph-api: the task registry (Task +           *)
(* StatusManager), the ThreadSafeSingleton metaclass and the ItemStore     *)
(* graph store.                                                            *)
(*                                                                         *)
(* Python values are modelled as follows:                                  *)
(*   - a dict is a function with a finite domain (absent key = not in      *)
(*     DOMAIN);                                                            *)
(*   - a str is a sequence of one-character strings, so that strip, join   *)
(*     and sorting can be computed;                                        *)
(*   - values stored in the registry are tagged records, None being        *)
(*     [t |-> "None"].                                                     *)
(***************************************************************************)
EXTENDS Integers, Sequences, FiniteSets, TLC

VARIABLES
    \* ---- StatusManager (src/status/status_manager.py:21-24)
    status,      \* dict task_id -> ValidStatus
    results,     \* dict task_id -> result
    errors,      \* dict task_id -> exception
    \* ---- Task objects and the threads running them (src/tasks/task.py)
    tpc,         \* position of each Task in run/_set_task_context_and_run
    ttask,       \* the constructor arguments of each Task
    tlocal,      \* task_result / e : the local variable of the run
    callerExc,   \* the exception Task.run() raised to its caller, if any
    runReturned, \* whether Task.run() has returned to its caller
    npub,        \* intermediate results published so far (bounded)
    tpub,        \* the last intermediate result the target published
    \* ---- ThreadSafeSingleton (src/commons/metaclasses.py)
    instances,   \* _instances: dict cls -> instance
    slocks,      \* _singleton_locks: dict cls -> Lock
    holder,      \* dict Lock -> thread holding it (0: free)
    spc,         \* position of each thread in __call__
    scls,        \* the class each thread is calling
    smylock,     \* the Lock object the thread read at the with statement
    sgot,        \* what __call__ returned to the thread (0: nothing yet)
    ctorCount,   \* how many times cls.__init__ ran
    \* ---- ItemStore (src/items/store.py:23-29)
    items,       \* _items: dict item id -> parsed item object
    graphs,      \* _graphs: dict session id -> dict graph key -> DiGraph
    nextObj,     \* allocator of object identities for parsed items
    last,        \* the last store call: its arguments and what it returned
    qcalls,      \* the set_query_node calls made: session, keywords, key returned
    plainRelate, \* the graphs relate was called on without no_doubles
    nops,        \* number of store calls made (bounded)
    \* ---- threads inside ItemStore.__parse_item_with_type
    cpc,         \* position of each thread
    carg,        \* the arguments of the thread's call
    cret,        \* the object the call returned (0: nothing yet)
    \* ---- clients of the API (src/api.py)
    polled,      \* what the status polls of each task id returned, in order
    fargs,       \* the arguments of a call of a helper function
    fret,        \* what the call returned or raised (None: not called)
    \* ---- a search: TaskManager.search_task and its worker thread
    sinput,      \* the selected types, the depth and the provider's catalog
    spos,        \* position of the caller in search_task
    sops,        \* the calls the worker thread has still to make, in order
    sfetched,    \* the requests made to the provider so far
    sdone,       \* the calls the worker thread has made, in order
    ssnap,       \* the nodes and edges search_task reads and returns
    again        \* a second search on the same keywords: the calls its
                 \* thread has yet to make and those it has made

smVars == <<status, results, errors>>
taskVars == <<tpc, ttask, tlocal, callerExc, runReturned, npub, tpub>>
singletonVars == <<instances, slocks, holder, spc, scls, smylock, sgot, ctorCount>>
storeVars == <<items, graphs, nextObj, last, qcalls, plainRelate, nops>>
cacheVars == <<cpc, carg, cret>>
apiVars ==
    <<polled, fargs, fret, sinput, spos, sops, sfetched, sdone, ssnap, again>>
vars == <<smVars, taskVars, singletonVars, storeVars, cacheVars, apiVars>>

-----------------------------------------------------------------------------
(* Bounds of the model *)

NumTasks == 2
MaxPublish == 2
NumThreads == 2
MaxOps == 3
MaxPolls == 2
MaxLen == 3
MaxWeight == 3
MaxTarget == 6
MaxTypes == 2
MaxDepth == 3
MaxPasses == 4

-----------------------------------------------------------------------------
(* Python values *)

None == [t |-> "None"]
Val(v) == [t |-> "val", v |-> v]
\* A Python dict with string keys, d the record of its entries
Dict(d) == [t |-> "dict", d |-> d]
Exc(e) == [t |-> "exc", v |-> e]

\* d[k] = v on a dict
Put(d, k, v) == [x \in (DOMAIN d) \cup {k} |-> IF x = k THEN v ELSE d[x]]
\* d.get(k, default)
Get(d, k, default) == IF k \in DOMAIN d THEN d[k] ELSE default
EmptyDict == << >>
\* dict.update
Update(old, new) ==
    [k \in (DOMAIN old) \cup (DOMAIN new) |-> IF k \in DOMAIN new THEN new[k] ELSE old[k]]

-----------------------------------------------------------------------------
(* StatusManager: src/status/status_manager.py *)

CREATED == "created"
RUNNING == "running"
FAILED == "failed"
COMPLETED == "completed"
NOT_FOUND == "not_found"

\* The registry as one value, so that its methods are functions on it.
SM == [status |-> status, results |-> results, errors |-> errors]
SetSM(sm) == /\ status' = sm.status
             /\ results' = sm.results
             /\ errors' = sm.errors

set_status(sm, task_id, st, error) ==
    [sm EXCEPT !.status = Put(@, task_id, st),
               !.errors = IF error # None THEN Put(@, task_id, error) ELSE @]

set_result(sm, task_id, result) ==
    [sm EXCEPT !.results = Put(@, task_id, result)]

create_task(sm, task_id) == set_status(sm, task_id, CREATED, None)

run_task(sm, task_id) == set_status(sm, task_id, RUNNING, None)

\* set_intermediate_result that also completes the task
set_intermediate_result_and_complete(sm, task_id, result) ==
    set_result(set_status(sm, task_id, COMPLETED, None), task_id, result)

\* status_manager.py:57-58
set_intermediate_result(sm, task_id, result) == set_result(sm, task_id, result)

\* fail_task without the error handed to _set_status
fail_task_drop_error(sm, task_id, error) == set_status(sm, task_id, FAILED, None)

\* status_manager.py:60-63
fail_task(sm, task_id, error) == set_status(sm, task_id, FAILED, error)

\* complete_task without the "if result is not None" test
complete_task_always_store(sm, task_id, st, result) ==
    set_result(set_status(sm, task_id, st, None), task_id, result)

\* status_manager.py:65-74
complete_task(sm, task_id, st, result) ==
    LET s1 == set_status(sm, task_id, st, None)
    IN  IF result # None THEN set_result(s1, task_id, result) ELSE s1

get_status(sm, task_id) == Get(sm.status, task_id, NOT_FOUND)

\* status_manager.py:40-49
all_tasks(sm) ==
    {[task_id |-> t, result |-> Get(sm.results, t, None),
      error |-> Get(sm.errors, t, None)] : t \in DOMAIN sm.status}

\* get_status_and_result with the result always nested under "result"
get_status_and_result_nested(sm, task_id) ==
    Dict([status |-> Get(sm.status, task_id, NOT_FOUND),
          result |-> Get(sm.results, task_id, Dict(EmptyDict)),
          error |-> Get(sm.errors, task_id, None)])

\* status_manager.py:79-96: {"status": ..., **result, "error": ...}; the
\* ** of a None result raises TypeError
get_status_and_result(sm, task_id) ==
    LET stored == Get(sm.results, task_id, Dict(EmptyDict))
        result == IF stored # None /\ stored.t # "dict"
                  THEN Dict([result |-> stored]) ELSE stored
    IN  IF result = None THEN Exc("TypeError")
        ELSE Dict(Update(Update([status |-> Get(sm.status, task_id, NOT_FOUND)],
                                result.d),
                         [error |-> Get(sm.errors, task_id, None)]))

-----------------------------------------------------------------------------
(* Task: src/tasks/task.py *)

TaskIds == 1..NumTasks
\* What a target can return, raise and publish while it runs.
ReturnValues == {None, Val("r1")}
Exceptions == {Exc("e1")}
\* store.py:426-435: a snapshot is a dict of the nodes and the edges
Snapshots == {Dict([nodes |-> "n1", edges |-> "e1"]),
              Dict([nodes |-> "n2", edges |-> "e2"])}

\* Task(target, task_uuid, use_threading).run(): the synchronous run executes
\* _set_task_context_and_run in the caller; the threaded one starts a thread
\* and returns at once.  task_uuid is a fresh uuid4 (task_manager.py:55,160),
\* here the index t.
TaskRun(t, use_threading, raises, val) ==
    /\ tpc[t] = "new"
    /\ ttask' = [ttask EXCEPT ![t] = [use_threading |-> use_threading,
                                      raises |-> raises, val |-> val]]
    /\ tpc' = [tpc EXCEPT ![t] = "create"]
    /\ runReturned' = [runReturned EXCEPT ![t] = use_threading]
    /\ UNCHANGED <<smVars, tlocal, callerExc, npub, tpub>>
    /\ UNCHANGED <<singletonVars, storeVars, cacheVars, apiVars>>

\* task.py:44
TaskCreate(t) ==
    /\ tpc[t] = "create"
    /\ SetSM(create_task(SM, t))
    /\ tpc' = [tpc EXCEPT ![t] = "run"]
    /\ UNCHANGED <<ttask, tlocal, callerExc, runReturned, npub, tpub>>
    /\ UNCHANGED <<singletonVars, storeVars, cacheVars, apiVars>>

\* task.py:46
TaskSetRunning(t) ==
    /\ tpc[t] = "run"
    /\ SetSM(run_task(SM, t))
    /\ tpc' = [tpc EXCEPT ![t] = "target"]
    /\ UNCHANGED <<ttask, tlocal, callerExc, runReturned, npub, tpub>>
    /\ UNCHANGED <<singletonVars, storeVars, cacheVars, apiVars>>

\* The number of snapshots published so far, by all the targets
RECURSIVE PublishedUpTo(_)
PublishedUpTo(n) == IF n = 0 THEN 0 ELSE npub[n] + PublishedUpTo(n - 1)
Published == PublishedUpTo(NumTasks)

\* task.py:48, inside the target: the store publishes a snapshot for the task
\* (store.py:437)
TargetPublish(t, snap) ==
    /\ tpc[t] = "target"
    /\ Published < MaxPublish
    /\ SetSM(set_intermediate_result(SM, t, snap))
    /\ npub' = [npub EXCEPT ![t] = @ + 1]
    /\ tpub' = [tpub EXCEPT ![t] = snap]
    /\ UNCHANGED <<tpc, ttask, tlocal, callerExc, runReturned>>
    /\ UNCHANGED <<singletonVars, storeVars, cacheVars, apiVars>>

\* task.py:48-49: the target returns its value or raises
TargetEnd(t) ==
    /\ tpc[t] = "target"
    /\ tlocal' = [tlocal EXCEPT ![t] = ttask[t].val]
    /\ tpc' = [tpc EXCEPT ![t] = IF ttask[t].raises THEN "except" ELSE "complete"]
    /\ UNCHANGED <<smVars, ttask, callerExc, runReturned, npub, tpub>>
    /\ UNCHANGED <<singletonVars, storeVars, cacheVars, apiVars>>

\* The handler without its raise: the run goes on to lines 55-59
ExceptHandlerSwallow(t) ==
    /\ tpc[t] = "except"
    /\ SetSM(fail_task(SM, t, tlocal[t]))
    /\ tpc' = [tpc EXCEPT ![t] = "complete"]
    /\ UNCHANGED <<ttask, tlocal, callerExc, runReturned, npub, tpub>>
    /\ UNCHANGED <<singletonVars, storeVars, cacheVars, apiVars>>

\* task.py:49-51
ExceptHandler(t) ==
    /\ tpc[t] = "except"
    /\ SetSM(fail_task(SM, t, tlocal[t]))
    /\ tpc' = [tpc EXCEPT ![t] = "reraise"]
    /\ UNCHANGED <<ttask, tlocal, callerExc, runReturned, npub, tpub>>
    /\ UNCHANGED <<singletonVars, storeVars, cacheVars, apiVars>>

\* task.py:52-53: raise; it reaches the caller of run() in the synchronous
\* case and ends the worker thread in the threaded one.
TaskReraise(t) ==
    /\ tpc[t] = "reraise"
    /\ callerExc' = [callerExc EXCEPT ![t] =
                        IF ttask[t].use_threading THEN @ ELSE tlocal[t]]
    /\ tpc' = [tpc EXCEPT ![t] = "done"]
    /\ UNCHANGED <<smVars, ttask, tlocal, runReturned, npub, tpub>>
    /\ UNCHANGED <<singletonVars, storeVars, cacheVars, apiVars>>

\* The run that ends without the call of complete_task
TaskCompleteSkipped(t) ==
    /\ tpc[t] = "complete"
    /\ tpc' = [tpc EXCEPT ![t] = "done"]
    /\ runReturned' = [runReturned EXCEPT ![t] = TRUE]
    /\ UNCHANGED <<smVars, ttask, tlocal, callerExc, npub, tpub>>
    /\ UNCHANGED <<singletonVars, storeVars, cacheVars, apiVars>>

\* task.py:55-59
TaskComplete(t) ==
    /\ tpc[t] = "complete"
    /\ SetSM(complete_task(SM, t, COMPLETED, tlocal[t]))
    /\ tpc' = [tpc EXCEPT ![t] = "done"]
    /\ runReturned' = [runReturned EXCEPT ![t] = TRUE]
    /\ UNCHANGED <<ttask, tlocal, callerExc, npub, tpub>>
    /\ UNCHANGED <<singletonVars, storeVars, cacheVars, apiVars>>

-----------------------------------------------------------------------------
(* ThreadSafeSingleton.__call__: src/commons/metaclasses.py:17-26            *)
(* Each line of __call__ is one step of the calling thread: the interpreter  *)
(* may switch threads between any two of them.                               *)

SThreads == 1..NumThreads
Classes == {"ItemStore", "StatusManager"}

\* A thread starts a call cls()
SCall(th, cls) ==
    /\ spc[th] = "idle"
    /\ scls' = [scls EXCEPT ![th] = cls]
    /\ spc' = [spc EXCEPT ![th] = "l18"]
    /\ UNCHANGED <<instances, slocks, holder, smylock, sgot, ctorCount>>
    /\ UNCHANGED <<smVars, taskVars, storeVars, cacheVars, apiVars>>

\* line 18: if cls not in cls._instances
SCheckInstance(th) ==
    /\ spc[th] = "l18"
    /\ spc' = [spc EXCEPT ![th] =
                  IF scls[th] \notin DOMAIN instances THEN "l19" ELSE "l26"]
    /\ UNCHANGED <<instances, slocks, holder, scls, smylock, sgot, ctorCount>>
    /\ UNCHANGED <<smVars, taskVars, storeVars, cacheVars, apiVars>>

\* line 19: if cls not in cls._singleton_locks
SCheckLock(th) ==
    /\ spc[th] = "l19"
    /\ spc' = [spc EXCEPT ![th] =
                  IF scls[th] \notin DOMAIN slocks THEN "l20" ELSE "l21"]
    /\ UNCHANGED <<instances, slocks, holder, scls, smylock, sgot, ctorCount>>
    /\ UNCHANGED <<smVars, taskVars, storeVars, cacheVars, apiVars>>

\* line 20: cls._singleton_locks[cls] = threading.Lock()
SNewLock(th) ==
    /\ spc[th] = "l20"
    /\ LET lk == Cardinality(DOMAIN holder) + 1
       IN  /\ holder' = Put(holder, lk, 0)
           /\ slocks' = Put(slocks, scls[th], lk)
    /\ spc' = [spc EXCEPT ![th] = "l21"]
    /\ UNCHANGED <<instances, scls, smylock, sgot, ctorCount>>
    /\ UNCHANGED <<smVars, taskVars, storeVars, cacheVars, apiVars>>

\* line 21: the expression cls._singleton_locks[cls] of the with statement
SReadLock(th) ==
    /\ spc[th] = "l21"
    /\ smylock' = [smylock EXCEPT ![th] = slocks[scls[th]]]
    /\ spc' = [spc EXCEPT ![th] = "acquire"]
    /\ UNCHANGED <<instances, slocks, holder, scls, sgot, ctorCount>>
    /\ UNCHANGED <<smVars, taskVars, storeVars, cacheVars, apiVars>>

\* line 21: __enter__ of the Lock the thread read
SAcquire(th) ==
    /\ spc[th] = "acquire"
    /\ holder[smylock[th]] = 0
    /\ holder' = [holder EXCEPT ![smylock[th]] = th]
    /\ spc' = [spc EXCEPT ![th] = "l22"]
    /\ UNCHANGED <<instances, slocks, scls, smylock, sgot, ctorCount>>
    /\ UNCHANGED <<smVars, taskVars, storeVars, cacheVars, apiVars>>

\* line 22: if cls not in cls._instances (under the lock)
SRecheckInstance(th) ==
    /\ spc[th] = "l22"
    /\ spc' = [spc EXCEPT ![th] =
                  IF scls[th] \notin DOMAIN instances THEN "l23" ELSE "release"]
    /\ UNCHANGED <<instances, slocks, holder, scls, smylock, sgot, ctorCount>>
    /\ UNCHANGED <<smVars, taskVars, storeVars, cacheVars, apiVars>>

\* lines 23-25: cls._instances[cls] = super().__call__(): the constructor
\* runs and its object (named by the count of constructions) is stored
SConstruct(th) ==
    /\ spc[th] = "l23"
    /\ ctorCount' = [ctorCount EXCEPT ![scls[th]] = @ + 1]
    /\ instances' = Put(instances, scls[th], ctorCount[scls[th]] + 1)
    /\ spc' = [spc EXCEPT ![th] = "release"]
    /\ UNCHANGED <<slocks, holder, scls, smylock, sgot>>
    /\ UNCHANGED <<smVars, taskVars, storeVars, cacheVars, apiVars>>

\* end of the with block: __exit__ releases the Lock the thread acquired
SRelease(th) ==
    /\ spc[th] = "release"
    /\ holder' = [holder EXCEPT ![smylock[th]] = 0]
    /\ spc' = [spc EXCEPT ![th] = "l26"]
    /\ UNCHANGED <<instances, slocks, scls, smylock, sgot, ctorCount>>
    /\ UNCHANGED <<smVars, taskVars, storeVars, cacheVars, apiVars>>

\* line 26: return cls._instances[cls]
SReturn(th) ==
    /\ spc[th] = "l26"
    /\ sgot' = [sgot EXCEPT ![th] = instances[scls[th]]]
    /\ spc' = [spc EXCEPT ![th] = "done"]
    /\ UNCHANGED <<instances, slocks, holder, scls, smylock, ctorCount>>
    /\ UNCHANGED <<smVars, taskVars, storeVars, cacheVars, apiVars>>

-----------------------------------------------------------------------------
(* Strings: src/commons/utils.py *)

IsSpace(c) == c = " "

RECURSIVE LStrip(_)
LStrip(w) == IF w = << >> THEN w
             ELSE IF IsSpace(Head(w)) THEN LStrip(Tail(w)) ELSE w

RECURSIVE RStrip(_)
RStrip(w) == IF w = << >> THEN w
             ELSE IF IsSpace(w[Len(w)]) THEN RStrip(SubSeq(w, 1, Len(w) - 1)) ELSE w

\* str.strip()
strip(w) == RStrip(LStrip(w))

\* sep.join(ws)
RECURSIVE join(_, _)
join(sep, ws) == IF ws = << >> THEN << >>
                 ELSE IF Len(ws) = 1 THEN ws[1]
                 ELSE ws[1] \o sep \o join(sep, Tail(ws))

\* values_to_str on a list of str (its callers in the store pass lists)
values_to_str(values, sep) == join(sep, [i \in DOMAIN values |-> strip(values[i])])

\* The letters of a string with their multiplicities: what
\* "".join(sorted(list(s))) keeps of s.
SortedLetters(w) ==
    [c \in {w[i] : i \in DOMAIN w} |-> Cardinality({i \in DOMAIN w : w[i] = c})]

\* commutative_hash(*args): the shake_128 digest of the sorted letters of the
\* joined arguments; the digest is kept symbolic (injective on its input).
commutative_hash(a, b) == SortedLetters(a \o b)

-----------------------------------------------------------------------------
(* networkx.DiGraph as the store uses it *)

\* nx.DiGraph(): node -> attributes, (u, v) -> attributes
NewDiGraph == [node |-> EmptyDict, edge |-> EmptyDict]

\* bool(g) is len(g) > 0, the number of nodes
GraphTruthy(g) == DOMAIN g.node # {}

\* g.add_node(n, **attrs): a new node, or an update of the attributes
nx_add_node(g, n, attrs) ==
    [g EXCEPT !.node = Put(@, n, Update(Get(@, n, EmptyDict), attrs))]

\* g.add_edge(u, v, **attrs): u and v become nodes when they are not
nx_add_edge(g, u, v, attrs) ==
    LET n1 == Put(g.node, u, Get(g.node, u, EmptyDict))
        n2 == Put(n1, v, Get(n1, v, EmptyDict))
    IN  [node |-> n2,
         edge |-> Put(g.edge, <<u, v>>, Update(Get(g.edge, <<u, v>>, EmptyDict), attrs))]

\* g.successors(n) and g.predecessors(n): the heads of the edges out of n and
\* the tails of the edges into n
successors(g, n) == {e[2] : e \in {x \in DOMAIN g.edge : x[1] = n}}
predecessors(g, n) == {e[1] : e \in {x \in DOMAIN g.edge : x[2] = n}}

\* commons.nodes_edges_to_list_of_dict (utils.py:126-156); the lists are kept
\* as sets of dicts
nodes_to_dicts(g) == {Update([id |-> n], g.node[n]) : n \in DOMAIN g.node}
edges_to_dicts(g) ==
    {Update([from |-> e[1], to |-> e[2]], g.edge[e]) : e \in DOMAIN g.edge}

-----------------------------------------------------------------------------
(* ItemStore: src/items/store.py *)

\* The store and the registry it publishes to, as one value.
ST == [items |-> items, graphs |-> graphs, nextObj |-> nextObj, sm |-> SM]
SetST(st) == /\ items' = st.items
             /\ graphs' = st.graphs
             /\ nextObj' = st.nextObj
             /\ SetSM(st.sm)

HasGraph(G, session_id, graph_key) ==
    session_id \in DOMAIN G /\ graph_key \in DOMAIN G[session_id]

\* store.py:66-71
depth_node_size(depth) == IF depth <= 1 THEN 50 ELSE IF depth = 2 THEN 30 ELSE 20

\* store.py:74-77
popularity_node_size(popularity) ==
    IF popularity = None \/ popularity.v <= 20 THEN 10 ELSE popularity.v \div 2

\* store.py:80-81
graph_key_from_keywords(keywords) == values_to_str(keywords, <<"+">>)

\* store.py:83-84
get(st, item_id) == Get(st.items, item_id, None)

\* store.py:100-103
get_graph(st, session_id, graph_key) ==
    Get(Get(st.graphs, session_id, EmptyDict), graph_key, None)

\* store.py:105-114
init_session(G, session_id) ==
    IF session_id \in DOMAIN G THEN G ELSE Put(G, session_id, EmptyDict)

\* store.py:116-127
init_graph(G, session_id, graph_key) ==
    LET G1 == init_session(G, session_id)
    IN  IF graph_key \in DOMAIN G1[session_id] THEN G1
        ELSE [G1 EXCEPT ![session_id] = Put(@, graph_key, NewDiGraph)]

\* store.py:414-440
add_nodes_edges_to_task(st, session_id, graph_key, task_id) ==
    LET current_graph == get_graph(st, session_id, graph_key)
        nodes_and_edges == Dict([nodes |-> nodes_to_dicts(current_graph),
                                 edges |-> edges_to_dicts(current_graph)])
    IN  [st EXCEPT !.sm = set_intermediate_result(@, task_id, nodes_and_edges)]

\* config.NodeColor.PRIMARY (config.py:40), item.node_color and the default
\* selected types (store.py:314-318); a colour argument is a css string, or
\* None written "None"
PRIMARY == "#1ed760"
node_color(item) == item.item_type
ALBUM == <<"a", "l", "b", "u", "m">>
ARTIST == <<"a", "r", "t", "i", "s", "t">>
TRACK == <<"t", "r", "a", "c", "k">>

\* store.py:129-174; the attributes taken from the item itself (label, title,
\* shape, href, preview_url, expand_enabled, image) are kept as the item
\* object they are read from
add_node(G, session_id, graph_key, item, selected_types, depth, color) ==
    [G EXCEPT ![session_id][graph_key] =
        nx_add_node(@, item.id,
            [item |-> item,
             size |-> popularity_node_size(item.popularity),
             color |-> IF color # "None" THEN color ELSE node_color(item),
             selected_types |-> values_to_str(selected_types, <<"+">>),
             graph_key |-> graph_key,
             node_type |-> item.item_type,
             depth |-> depth])]

\* The attributes of the query node, store.py:201-213
query_node_attrs(query_key, query_kw, task_id) ==
    [label |-> values_to_str(query_kw, <<" ">>),
     title |-> "Query",
     size |-> 50,
     color |-> PRIMARY,
     shape |-> "circle",
     href |-> join(<<"%", "2", "0">>, query_kw),
     task_id |-> task_id,
     graph_key |-> query_key,
     node_type |-> "query"]

\* set_query_node without the early return of line 197
set_query_node_always_override(st, session_id, query_kw, task_id, override) ==
    LET query_key == graph_key_from_keywords(query_kw)
        found == HasGraph(st.graphs, session_id, query_key)
                    /\ GraphTruthy(st.graphs[session_id][query_key])
        G1 == IF found
              THEN [st.graphs EXCEPT ![session_id][query_key] = NewDiGraph]
              ELSE st.graphs
        G2 == init_graph(G1, session_id, query_key)
        G3 == [G2 EXCEPT ![session_id][query_key] =
                  nx_add_node(@, query_key,
                              query_node_attrs(query_key, query_kw, task_id))]
    IN  [st |-> [st EXCEPT !.graphs = G3], ret |-> query_key]

\* set_query_node without the new DiGraph of line 198
set_query_node_no_reset(st, session_id, query_kw, task_id, override) ==
    LET query_key == graph_key_from_keywords(query_kw)
        found == HasGraph(st.graphs, session_id, query_key)
                    /\ GraphTruthy(st.graphs[session_id][query_key])
        G2 == init_graph(st.graphs, session_id, query_key)
        G3 == [G2 EXCEPT ![session_id][query_key] =
                  nx_add_node(@, query_key,
                              query_node_attrs(query_key, query_kw, task_id))]
    IN  IF found /\ ~override
        THEN [st |-> st, ret |-> query_key]
        ELSE [st |-> [st EXCEPT !.graphs = G3], ret |-> query_key]

\* store.py:176-214; the result is the store after the call and the key
\* returned
set_query_node(st, session_id, query_kw, task_id, override) ==
    LET query_key == graph_key_from_keywords(query_kw)
        found == HasGraph(st.graphs, session_id, query_key)
                    /\ GraphTruthy(st.graphs[session_id][query_key])
        G1 == IF found
              THEN [st.graphs EXCEPT ![session_id][query_key] = NewDiGraph]
              ELSE st.graphs
        G2 == init_graph(G1, session_id, query_key)
        G3 == [G2 EXCEPT ![session_id][query_key] =
                  nx_add_node(@, query_key,
                              query_node_attrs(query_key, query_kw, task_id))]
    IN  IF found /\ ~override
        THEN [st |-> st, ret |-> query_key]
        ELSE [st |-> [st EXCEPT !.graphs = G3], ret |-> query_key]

\* store.py:216-228: the item constructor makes a new object on every call
parse_item(item, item_type, obj) ==
    [obj |-> obj, id |-> item.id, item_type |-> item_type,
     popularity |-> item.popularity]

\* A node is found when graph.nodes.get(id) is truthy: the node exists and
\* its attribute dict is not empty (store.py:261-265)
NodeTruthy(g, n) == n \in DOMAIN g.node /\ g.node[n] # EmptyDict

\* __parse_item_with_type without the node test of lines 261-265
parse_item_with_type_always_add(st, args, item, item_type) ==
    LET s1 == IF item.id \notin DOMAIN st.items
              THEN [st EXCEPT !.items = Put(@, item.id,
                                            parse_item(item, item_type, st.nextObj)),
                              !.nextObj = @ + 1]
              ELSE st
        s2 == [s1 EXCEPT !.graphs =
                      add_node(@, args.session_id, args.graph_key,
                               s1.items[item.id], args.selected_types,
                               args.depth, args.color)]
    IN  IF args.task_id # None
        THEN add_nodes_edges_to_task(s2, args.session_id, args.graph_key,
                                     args.task_id.v)
        ELSE s2

\* store.py:230-281; args holds session_id, graph_key, depth,
\* selected_types, color and task_id
parse_item_with_type(st, args, item, item_type) ==
    LET s1 == IF item.id \notin DOMAIN st.items
              THEN [st EXCEPT !.items = Put(@, item.id,
                                            parse_item(item, item_type, st.nextObj)),
                              !.nextObj = @ + 1]
              ELSE st
        s2 == IF ~NodeTruthy(s1.graphs[args.session_id][args.graph_key], item.id)
              THEN [s1 EXCEPT !.graphs =
                      add_node(@, args.session_id, args.graph_key,
                               s1.items[item.id], args.selected_types,
                               args.depth, args.color)]
              ELSE s1
    IN  IF args.task_id # None
        THEN add_nodes_edges_to_task(s2, args.session_id, args.graph_key,
                                     args.task_id.v)
        ELSE s2

\* store.py:291-356; search_results is the list non_parsed_items of the
\* {item, item_type} entries, already in the order of _items_api_keys
RECURSIVE parse_each(_, _, _)
parse_each(st, args, entries) ==
    IF entries = << >> THEN st
    ELSE parse_each(parse_item_with_type(st, args, Head(entries).item,
                                         Head(entries).item_type),
                    args, Tail(entries))

parse_items_from_api_result(st, args, search_results) ==
    LET selected_types == IF args.selected_types # << >> THEN args.selected_types
                          ELSE <<ALBUM, ARTIST, TRACK>>
        s0 == [st EXCEPT !.graphs = init_graph(@, args.session_id, args.graph_key)]
    IN  parse_each(s0, [args EXCEPT !.selected_types = selected_types],
                   search_results)

\* config.EDGE_WIDTH, the edge id f"{parent_id}_{child_id}" and the edge
\* attributes of store.py:381-388
edge_attrs(parent_id, child_id, kwargs) ==
    Update([width |-> "EDGE_WIDTH",
            id |-> parent_id \o <<"_">> \o child_id,
            unordered_id |-> commutative_hash(parent_id, child_id)],
           kwargs)

\* store.py:379-388: one add_edge(child_id, parent_id, ...) per child
RECURSIVE relate_each(_, _, _, _)
relate_each(g, parent_id, children_ids, kwargs) ==
    IF children_ids = {} THEN g
    ELSE LET child_id == CHOOSE c \in children_ids : TRUE
         IN  relate_each(nx_add_edge(g, child_id, parent_id,
                                     edge_attrs(parent_id, child_id, kwargs)),
                         parent_id, children_ids \ {child_id}, kwargs)

\* store.py:358-393; self._graphs[session_id][graph_key] raises KeyError on
\* a graph that does not exist, so callers relate on an existing graph
relate(st, session_id, graph_key, parent_id, children_ids, task_id, kwargs) ==
    LET s1 == [st EXCEPT !.graphs[session_id][graph_key] =
                   relate_each(@, parent_id, children_ids, kwargs)]
    IN  IF task_id # None
        THEN add_nodes_edges_to_task(s1, session_id, graph_key, task_id.v)
        ELSE s1

\* A Python list: a sequence, or a set when its order does not matter
List(S) == [t |-> "list", v |-> S]

\* get_successors that finds the node and returns its successors
get_successors_found(st, session_id, graph_key, node_id) ==
    IF ~HasGraph(st.graphs, session_id, graph_key)
    THEN List({})
    ELSE List(successors(st.graphs[session_id][graph_key], node_id))

\* store.py:395-412.  The walrus expression looks the node up with
\* .get(node_id) on what .get(graph_key, {}) returned: the empty dict when
\* the graph does not exist (the lookup gives None and the method returns
\* []), the DiGraph when it does, and a DiGraph has no method get, so the
\* lookup raises AttributeError before line 410 is reached.  The method has
\* no recursive mode.
get_successors(st, session_id, graph_key, node_id) ==
    IF ~HasGraph(st.graphs, session_id, graph_key)
    THEN List({})
    ELSE Exc("AttributeError")

\* deleteNodes(sessionId, graphKey, nodeIds): removes the nodes and every edge
\* incident to one of them; ids that are not nodes are ignored
delete_nodes(G, session_id, graph_key, nodes_ids) ==
    [G EXCEPT ![session_id][graph_key] =
        [node |-> [n \in (DOMAIN @.node) \ nodes_ids |-> @.node[n]],
         edge |-> [e \in {x \in DOMAIN @.edge :
                             x[1] \notin nodes_ids /\ x[2] \notin nodes_ids}
                      |-> @.edge[e]]]]

\* api.py:176-215, the delete endpoint; the result is the store after the
\* call and what the endpoint returned or raised
delete(st, session_id, graph_key, node_id, cascading) ==
    LET succ == IF cascading
                THEN get_successors(st, session_id, graph_key, node_id)
                ELSE List({})
        nodes_to_delete == {node_id} \cup succ.v
    IN  IF succ.t = "exc"
        THEN [st |-> st, ret |-> succ]
        ELSE [st |-> [st EXCEPT !.graphs = delete_nodes(@, session_id, graph_key,
                                                        nodes_to_delete)],
              ret |-> [t |-> "dict", nodes |-> nodes_to_delete]]

-----------------------------------------------------------------------------
(* The calls made on the store, one after the other *)

Sessions == {"s1", "s2"}
KeywordLists == {<< <<"a">>, <<"b">> >>, << <<" ", "a">>, <<"b">> >>,
                 << <<"b">>, <<"a">> >>}
GraphKeys == {graph_key_from_keywords(kw) : kw \in KeywordLists}
\* Catalog objects as the provider returns them, with their type
Entry(id, popularity, item_type) ==
    [item |-> [id |-> id, popularity |-> popularity], item_type |-> item_type]
SearchResults ==
    {<<Entry(<<"1">>, Val(60), "track")>>,
     <<Entry(<<"1">>, None, "track"), Entry(<<"2">>, Val(60), "artist")>>}
\* depth, selected_types, color and task_id of a parse call
ParseArgs ==
    {[depth |-> 1, selected_types |-> << >>, color |-> "None", task_id |-> None],
     [depth |-> 2, selected_types |-> <<ARTIST>>, color |-> "red", task_id |-> Val(1)]}
\* parent and children of a relate call: item to item, and items to the
\* query node of the graph
RelatePairs(graph_key) ==
    {[parent_id |-> <<"1">>, children_ids |-> {<<"2">>}],
     [parent_id |-> <<"2">>, children_ids |-> {<<"1">>}],
     [parent_id |-> graph_key, children_ids |-> {<<"1">>, <<"2">>}]}
\* task_id and **kwargs of a relate call
RelateOptions ==
    {[task_id |-> None, kwargs |-> EmptyDict],
     [task_id |-> Val(1), kwargs |-> [no_doubles |-> TRUE, is_backbone |-> TRUE]]}

NoCall == [op |-> "none", session_id |-> "", graph_key |-> << >>,
           query_kw |-> << >>, override |-> FALSE, ret |-> << >>,
           ids |-> {}, parent_id |-> << >>, no_doubles |-> FALSE,
           found |-> FALSE, nodesBefore |-> {}, styledBefore |-> {},
           sizeBefore |-> 0, repeat |-> FALSE, depth |-> 0,
           node_id |-> << >>, cascading |-> FALSE, recursive |-> FALSE,
           result |-> None]

GraphSize(g) == Cardinality(DOMAIN g.node) + Cardinality(DOMAIN g.edge)

\* What a graph looked like before a call, for the record of the call
Before(session_id, graph_key) ==
    LET has == HasGraph(graphs, session_id, graph_key)
        g == IF has THEN graphs[session_id][graph_key] ELSE NewDiGraph
    IN  [found |-> has /\ GraphTruthy(g),
         nodesBefore |-> DOMAIN g.node,
         styledBefore |-> {n \in DOMAIN g.node : g.node[n] # EmptyDict},
         sizeBefore |-> GraphSize(g)]

Called(rec) == /\ nops < MaxOps
               /\ nops' = nops + 1
               /\ last' = rec

StoreInitGraph(session_id, graph_key) ==
    /\ Called(Update(NoCall, Update(Before(session_id, graph_key),
              [op |-> "init_graph", session_id |-> session_id,
               graph_key |-> graph_key])))
    /\ graphs' = init_graph(graphs, session_id, graph_key)
    /\ UNCHANGED <<items, nextObj, qcalls, plainRelate, smVars>>
    /\ UNCHANGED <<taskVars, singletonVars, cacheVars, apiVars>>

StoreSetQueryNode(session_id, query_kw, task_id, override) ==
    LET r == set_query_node(ST, session_id, query_kw, task_id, override)
    IN  /\ Called(Update(NoCall, Update(Before(session_id, r.ret),
                  [op |-> "set_query_node", session_id |-> session_id,
                   graph_key |-> r.ret, query_kw |-> query_kw,
                   override |-> override, ret |-> r.ret,
                   repeat |-> \E c \in qcalls : /\ c.session_id = session_id
                                                /\ c.query_kw = query_kw
                                                /\ ~c.override])))
        /\ SetST(r.st)
        /\ qcalls' = qcalls \cup {[session_id |-> session_id,
                                   query_kw |-> query_kw, override |-> override,
                                   ret |-> r.ret, found |-> Before(session_id, r.ret).found]}
        /\ UNCHANGED plainRelate
        /\ UNCHANGED <<taskVars, singletonVars, cacheVars, apiVars>>

StoreParseItems(session_id, graph_key, search_results, a) ==
    LET args == [session_id |-> session_id, graph_key |-> graph_key,
                 depth |-> a.depth, selected_types |-> a.selected_types,
                 color |-> a.color, task_id |-> a.task_id]
    IN  /\ Called(Update(NoCall, Update(Before(session_id, graph_key),
                  [op |-> "parse_items", session_id |-> session_id,
                   graph_key |-> graph_key, depth |-> a.depth,
                   ids |-> {search_results[i].item.id : i \in DOMAIN search_results}])))
        /\ SetST(parse_items_from_api_result(ST, args, search_results))
        /\ UNCHANGED <<qcalls, plainRelate>>
        /\ UNCHANGED <<taskVars, singletonVars, cacheVars, apiVars>>

StoreRelate(session_id, graph_key, parent_id, children_ids, task_id, kwargs) ==
    /\ HasGraph(graphs, session_id, graph_key)
    /\ Called(Update(NoCall, Update(Before(session_id, graph_key),
              [op |-> "relate", session_id |-> session_id,
               graph_key |-> graph_key, parent_id |-> parent_id,
               ids |-> children_ids,
               no_doubles |-> "no_doubles" \in DOMAIN kwargs])))
    /\ SetST(relate(ST, session_id, graph_key, parent_id, children_ids,
                    task_id, kwargs))
    /\ plainRelate' = IF "no_doubles" \in DOMAIN kwargs THEN plainRelate
                      ELSE plainRelate \cup {<<session_id, graph_key>>}
    /\ UNCHANGED qcalls
    /\ UNCHANGED <<taskVars, singletonVars, cacheVars, apiVars>>

\* api.py:286-310: the successors endpoint
StoreGetSuccessors(session_id, graph_key, node_id, recursive) ==
    /\ Called(Update(NoCall, Update(Before(session_id, graph_key),
              [op |-> "get_successors", session_id |-> session_id,
               graph_key |-> graph_key, node_id |-> node_id,
               recursive |-> recursive,
               result |-> get_successors(ST, session_id, graph_key, node_id)])))
    /\ UNCHANGED <<items, graphs, nextObj, qcalls, plainRelate, smVars>>
    /\ UNCHANGED <<taskVars, singletonVars, cacheVars, apiVars>>

\* api.py:176-215: the delete endpoint, on a graph of the session
ApiDelete(session_id, graph_key, node_id, cascading) ==
    LET r == delete(ST, session_id, graph_key, node_id, cascading)
    IN  /\ HasGraph(graphs, session_id, graph_key)
        /\ Called(Update(NoCall, Update(Before(session_id, graph_key),
                  [op |-> "delete", session_id |-> session_id,
                   graph_key |-> graph_key, node_id |-> node_id,
                   cascading |-> cascading, result |-> r.ret])))
        /\ SetST(r.st)
        /\ UNCHANGED <<qcalls, plainRelate>>
        /\ UNCHANGED <<taskVars, singletonVars, cacheVars, apiVars>>

-----------------------------------------------------------------------------
(* Threads inside ItemStore.__parse_item_with_type, store.py:230-281: worker *)
(* threads of concurrent tasks parse provider results into the shared store. *)
(* Each statement is one step of its thread.                                 *)

CThreads == 1..NumThreads
CEntries == {Entry(<<"1">>, Val(60), "track"), Entry(<<"1">>, None, "track"),
             Entry(<<"2">>, Val(60), "artist")}
NoArgs == [session_id |-> "", graph_key |-> << >>, depth |-> 0,
           selected_types |-> << >>, color |-> "None", task_id |-> None,
           entry |-> Entry(<< >>, None, "")]

\* parse_items_from_api_result reaches the call for one entry, the graph
\* initialised (store.py:344-355)
CStart(th, session_id, graph_key, entry, a) ==
    /\ cpc[th] = "idle"
    /\ carg' = [carg EXCEPT ![th] =
                  [session_id |-> session_id, graph_key |-> graph_key,
                   depth |-> a.depth,
                   selected_types |-> IF a.selected_types # << >>
                                      THEN a.selected_types
                                      ELSE <<ALBUM, ARTIST, TRACK>>,
                   color |-> a.color, task_id |-> a.task_id, entry |-> entry]]
    /\ graphs' = init_graph(graphs, session_id, graph_key)
    /\ cpc' = [cpc EXCEPT ![th] = "l256"]
    /\ UNCHANGED <<items, nextObj, last, qcalls, plainRelate, nops, cret, smVars>>
    /\ UNCHANGED <<taskVars, singletonVars, apiVars>>

\* store.py:256: if not self._items.get(item["id"])
CCheckCache(th) ==
    /\ cpc[th] = "l256"
    /\ cpc' = [cpc EXCEPT ![th] =
                  IF carg[th].entry.item.id \notin DOMAIN items THEN "l257" ELSE "l261"]
    /\ UNCHANGED <<storeVars, carg, cret, smVars, taskVars, singletonVars, apiVars>>

\* store.py:257-259: self._items[item["id"]] = self.__parse_item(...)
CStoreItem(th) ==
    /\ cpc[th] = "l257"
    /\ items' = Put(items, carg[th].entry.item.id,
                    parse_item(carg[th].entry.item, carg[th].entry.item_type, nextObj))
    /\ nextObj' = nextObj + 1
    /\ cpc' = [cpc EXCEPT ![th] = "l261"]
    /\ UNCHANGED <<graphs, last, qcalls, plainRelate, nops, carg, cret, smVars, taskVars, singletonVars, apiVars>>

\* store.py:261-265: the node test
CCheckNode(th) ==
    /\ cpc[th] = "l261"
    /\ cpc' = [cpc EXCEPT ![th] =
                  IF ~NodeTruthy(graphs[carg[th].session_id][carg[th].graph_key],
                                 carg[th].entry.item.id)
                  THEN "l266" ELSE "l274"]
    /\ UNCHANGED <<storeVars, carg, cret, smVars, taskVars, singletonVars, apiVars>>

\* store.py:266-273: self._add_node(item=self._items[item["id"]], ...)
CAddNode(th) ==
    /\ cpc[th] = "l266"
    /\ graphs' = add_node(graphs, carg[th].session_id, carg[th].graph_key,
                          items[carg[th].entry.item.id], carg[th].selected_types,
                          carg[th].depth, carg[th].color)
    /\ cpc' = [cpc EXCEPT ![th] = "l274"]
    /\ UNCHANGED <<items, nextObj, last, qcalls, plainRelate, nops, carg, cret, smVars>>
    /\ UNCHANGED <<taskVars, singletonVars, apiVars>>

\* store.py:274-279: the snapshot for the task
CPublish(th) ==
    /\ cpc[th] = "l274"
    /\ IF carg[th].task_id # None
       THEN SetSM(add_nodes_edges_to_task(ST, carg[th].session_id,
                                          carg[th].graph_key, carg[th].task_id.v).sm)
       ELSE UNCHANGED smVars
    /\ cpc' = [cpc EXCEPT ![th] = "l281"]
    /\ UNCHANGED <<storeVars, carg, cret, taskVars, singletonVars, apiVars>>

\* store.py:281: return self._items[item["id"]]
CReturn(th) ==
    /\ cpc[th] = "l281"
    /\ cret' = [cret EXCEPT ![th] = items[carg[th].entry.item.id].obj]
    /\ cpc' = [cpc EXCEPT ![th] = "done"]
    /\ UNCHANGED <<storeVars, carg, smVars, taskVars, singletonVars, apiVars>>

-----------------------------------------------------------------------------
(* Clients polling the tasks: src/api.py *)

\* get_task_status with a default dict as the status table: the lookup of an
\* unknown id creates its entry
get_task_status_creating(task_id) ==
    /\ Len(polled[task_id]) < MaxPolls
    /\ polled' = [polled EXCEPT ![task_id] =
                     Append(@, get_status_and_result(SM, task_id))]
    /\ SetSM([SM EXCEPT !.status = Put(@, task_id, Get(@, task_id, NOT_FOUND))])
    /\ UNCHANGED <<fargs, fret, sinput, again, spos, sops, sfetched, sdone, ssnap>>
    /\ UNCHANGED <<taskVars, singletonVars, storeVars, cacheVars>>

\* api.py:221-236: GET /api/tasks/{task_id}/status
get_task_status(task_id) ==
    /\ Len(polled[task_id]) < MaxPolls
    /\ polled' = [polled EXCEPT ![task_id] =
                     Append(@, get_status_and_result(SM, task_id))]
    /\ UNCHANGED <<fargs, fret, sinput, again, spos, sops, sfetched, sdone, ssnap>>
    /\ UNCHANGED <<smVars, taskVars, singletonVars, storeVars, cacheVars>>

-----------------------------------------------------------------------------
(* Helper functions: src/commons/utils.py and the DeezerWrapper class *)

\* argmax taking the last index of the largest entry
argmax_last(a) ==
    CHOOSE i \in 1..Len(a) :
        /\ \A j \in 1..Len(a) : a[j] <= a[i]
        /\ \A j \in (i + 1)..Len(a) : a[j] < a[i]

\* numpy.argmax: the first index of the largest entry
argmax(a) ==
    CHOOSE i \in 1..Len(a) :
        /\ \A j \in 1..Len(a) : a[j] <= a[i]
        /\ \A j \in 1..(i - 1) : a[j] < a[i]

\* sum of a list of integers
RECURSIVE sum(_)
sum(a) == IF a = << >> THEN 0 ELSE Head(a) + sum(Tail(a))

\* The while loop without the capacity taken off the bin it adds to
RECURSIVE scale_while_no_capacity(_, _, _, _)
scale_while_no_capacity(remaining, res, used, target_sum) ==
    LET _next == argmax(remaining)
    IN  IF used < target_sum /\ remaining[_next] > 0
        THEN scale_while_no_capacity(remaining, [res EXCEPT ![_next] = @ + 1],
                                     used + 1, target_sum)
        ELSE [res |-> res, used |-> used]

\* utils.py:110-115, the while loop
RECURSIVE scale_while(_, _, _, _)
scale_while(remaining, res, used, target_sum) ==
    LET _next == argmax(remaining)
    IN  IF used < target_sum /\ remaining[_next] > 0
        THEN scale_while([remaining EXCEPT ![_next] = @ - 1],
                         [res EXCEPT ![_next] = @ + 1], used + 1, target_sum)
        ELSE [res |-> res, used |-> used]

\* scale_weights without lines 117-126: what the loop gave is returned
RECURSIVE scale_weights_one_pass(_, _, _)
scale_weights_one_pass(relative_weights, target_sum, include_all) ==
    LET n == Len(relative_weights)
    IN  IF target_sum < n /\ include_all THEN Exc("ValueError")
        ELSE List(scale_while(
                 [i \in 1..n |-> IF include_all THEN relative_weights[i] - 1
                                               ELSE relative_weights[i]],
                 [i \in 1..n |-> IF include_all THEN 1 ELSE 0],
                 IF include_all THEN n ELSE 0, target_sum).res)

\* utils.py:73-128
RECURSIVE scale_weights(_, _, _)
scale_weights(relative_weights, target_sum, include_all) ==
    LET n == Len(relative_weights)
    IN  IF target_sum < n /\ include_all THEN Exc("ValueError")
        \* utils.py:106: np.argmax of an empty list raises ValueError
        ELSE IF n = 0 THEN Exc("ValueError")
        ELSE LET loop == scale_while(
                     [i \in 1..n |-> IF include_all THEN relative_weights[i] - 1
                                                   ELSE relative_weights[i]],
                     [i \in 1..n |-> IF include_all THEN 1 ELSE 0],
                     IF include_all THEN n ELSE 0, target_sum)
             IN  IF loop.used < target_sum
                 THEN LET rest == scale_weights(relative_weights,
                                                target_sum - loop.used, FALSE)
                      IN  List([i \in 1..n |-> loop.res[i] + rest.v[i]])
                 ELSE List(loop.res)

\* wrappers.py:16-40
REC_SIZE == 5
ALL_TYPES == <<"album", "artist", "track">>
BACKBONE_PRIORITIES == [artist |-> 1, album |-> 2, track |-> 3]
TYPE_REC_WEIGHT == [album |-> 1, artist |-> 1, track |-> 3]

\* sorted(a, key=...): stable, each element goes after those whose key is
\* not larger
RECURSIVE insert(_, _, _)
insert(x, a, key) ==
    IF a = << >> THEN <<x>>
    ELSE IF key[a[Len(a)]] <= key[x] THEN Append(a, x)
    ELSE Append(insert(x, SubSeq(a, 1, Len(a) - 1), key), a[Len(a)])
RECURSIVE sorted(_, _)
sorted(a, key) ==
    IF a = << >> THEN << >>
    ELSE insert(a[Len(a)], sorted(SubSeq(a, 1, Len(a) - 1), key), key)

\* get_backbone_type without the sort: the first type listed
get_backbone_type_first_listed(restricted_types) ==
    IF restricted_types = << >> THEN Exc("StopIteration")
    ELSE Val(Head(restricted_types))

\* wrappers.py:62-75; next() of an empty iterator raises StopIteration
get_backbone_type(restricted_types) ==
    LET candidates == sorted(restricted_types, BACKBONE_PRIORITIES)
    IN  IF candidates = << >> THEN Exc("StopIteration")
        ELSE Val(Head(candidates))

\* wrappers.py:77-89: dict of the types zipped with their scaled weights (a
\* type listed twice keeps the weight of its last place)
_scale_per_type(limit, restricted_types) ==
    LET scaled == scale_weights([i \in 1..Len(restricted_types) |->
                                    TYPE_REC_WEIGHT[restricted_types[i]]],
                                limit, TRUE)
    IN  IF scaled.t = "exc" THEN scaled
        ELSE Dict([t \in {restricted_types[i] : i \in 1..Len(restricted_types)} |->
                     scaled.v[CHOOSE i \in 1..Len(restricted_types) :
                                 /\ restricted_types[i] = t
                                 /\ \A j \in (i + 1)..Len(restricted_types) :
                                        restricted_types[j] # t]])

\* What the provider answers for one artist: an error, or the list of the
\* artist's albums or top tracks
ArtistAnswers == {"error", "none", "two"}
provider_items(artists, i) ==
    IF artists[i] = "two" THEN << <<i, 1>>, <<i, 2>> >> ELSE << >>

\* The whole population, whatever k
whole_population(population, k) == population

\* random.sample(population, k) when k < len(population), else the
\* population: k of the items, here the first k
sample_or_all(population, k) ==
    IF k < Len(population) THEN SubSeq(population, 1, k) ELSE population

\* item.py:190-245, the loop over per_artist from artist i on; limits[i] is
\* the weight of the artist.  Only get_top, for tracks, stands in a try
\* block that skips the artist on DeezerErrorResponse
RECURSIVE dive_from(_, _, _, _, _)
dive_from(target_type, artists, limits, i, found) ==
    IF i > Len(limits) THEN List(found)
    ELSE IF limits[i] < 1
    THEN dive_from(target_type, artists, limits, i + 1, found)
    ELSE IF target_type = "album"
    THEN IF artists[i] = "error" THEN Exc("DeezerErrorResponse")
         ELSE dive_from(target_type, artists, limits, i + 1,
                        found \o sample_or_all(provider_items(artists, i), limits[i]))
    ELSE IF artists[i] = "error"
    THEN dive_from(target_type, artists, limits, i + 1, found)
    ELSE dive_from(target_type, artists, limits, i + 1,
                   found \o sample_or_all(provider_items(artists, i), limits[i]))

\* item.py:190-245: ResourceFactory.dive, artists the _artists of the resource
dive(target_type, limit, artists) ==
    LET n == IF Len(artists) < limit THEN Len(artists) ELSE limit
    IN  IF target_type = "artist"
        THEN List([i \in 1..n |-> <<i, 0>>])
        ELSE LET weights == scale_weights([i \in 1..n |-> 1], limit, TRUE)
             IN  IF weights.t = "exc" THEN weights
                 ELSE dive_from(target_type, artists, weights.v, 1, << >>)

\* item.py:260-269: the related artists of every artist, artist.get_related()
\* giving two artists, none, or raising; the set of them is cut to limit, in
\* whichever order the set has: here the first limit of them
RECURSIVE all_related(_, _)
all_related(artists, i) ==
    IF i > Len(artists) THEN List(<< >>)
    ELSE IF artists[i] = "error" THEN Exc("DeezerErrorResponse")
    ELSE LET rest == all_related(artists, i + 1)
         IN  IF rest.t = "exc" THEN rest
             ELSE List(provider_items(artists, i) \o rest.v)

\* item.py:271-291: per_artist gives every one of the first limit artists
\* the whole limit, the weight of the zip is not read; the artist at i is
\* dived as a resource of its own, whose items are those of artist i
RECURSIVE explore_from(_, _, _, _, _)
explore_from(target_type, artists, limit, i, n) ==
    IF i > n THEN List(<< >>)
    ELSE LET items_ == dive(target_type, limit, <<artists[i]>>)
             rest == explore_from(target_type, artists, limit, i + 1, n)
         IN  IF items_.t = "exc" THEN items_
             ELSE IF rest.t = "exc" THEN rest
             ELSE List([k \in 1..Len(items_.v) |-> <<i, items_.v[k][2]>>]
                       \o rest.v)

\* item.py:247-291: ResourceFactory.explore
explore(target_type, limit, artists) ==
    LET n == IF Len(artists) < limit THEN Len(artists) ELSE limit
        weights == scale_weights([i \in 1..n |-> 1], limit, TRUE)
    IN  IF target_type = "artist"
        THEN LET related == all_related(artists, 1)
             IN  IF related.t = "exc" THEN related
                 ELSE List(SubSeq(related.v, 1,
                                  IF Len(related.v) < limit
                                  THEN Len(related.v) ELSE limit))
        ELSE IF weights.t = "exc" THEN weights
        ELSE explore_from(target_type, artists, limit, 1, n)

CallExplore ==
    /\ fret = None
    /\ fret' = explore(fargs.target_type, fargs.limit, fargs.artists)
    /\ fargs' = [fargs EXCEPT !.f = "explore"]
    /\ UNCHANGED <<polled, sinput, again, spos, sops, sfetched, sdone, ssnap>>
    /\ UNCHANGED <<smVars, taskVars, singletonVars, storeVars, cacheVars>>

\* The calls of the helpers, on the arguments drawn; f names the call made
NoArguments == [f |-> "none"]

CallScaleWeights ==
    /\ fret = None
    /\ fret' = scale_weights(fargs.relative_weights, fargs.target_sum,
                             fargs.include_all)
    /\ fargs' = [fargs EXCEPT !.f = "scale_weights"]
    /\ UNCHANGED <<polled, sinput, again, spos, sops, sfetched, sdone, ssnap>>
    /\ UNCHANGED <<smVars, taskVars, singletonVars, storeVars, cacheVars>>

CallGetBackboneType ==
    /\ fret = None
    /\ fret' = get_backbone_type(fargs.restricted_types)
    /\ fargs' = [fargs EXCEPT !.f = "get_backbone_type"]
    /\ UNCHANGED <<polled, sinput, again, spos, sops, sfetched, sdone, ssnap>>
    /\ UNCHANGED <<smVars, taskVars, singletonVars, storeVars, cacheVars>>

CallDive ==
    /\ fret = None
    /\ fret' = dive(fargs.target_type, fargs.limit, fargs.artists)
    /\ fargs' = [fargs EXCEPT !.f = "dive"]
    /\ UNCHANGED <<polled, sinput, again, spos, sops, sfetched, sdone, ssnap>>
    /\ UNCHANGED <<smVars, taskVars, singletonVars, storeVars, cacheVars>>

CallScalePerType ==
    /\ fret = None
    /\ fret' = _scale_per_type(fargs.limit, fargs.restricted_types)
    /\ fargs' = [fargs EXCEPT !.f = "_scale_per_type"]
    /\ UNCHANGED <<polled, sinput, again, spos, sops, sfetched, sdone, ssnap>>
    /\ UNCHANGED <<smVars, taskVars, singletonVars, storeVars, cacheVars>>

\* The conversions of the candidates, in the order the loops of
\* wrappers.py:209-214 meet them
RECURSIVE conversions(_)
conversions(candidates) ==
    IF candidates = << >> THEN << >>
    ELSE Head(candidates).converted \o conversions(Tail(candidates))

\* wrappers.py:208-221: best_candidates, a dict keyed by the id of the
\* conversion, as the list of its keys in insertion order
RECURSIVE best_candidates(_, _, _)
best_candidates(visit, best, limit) ==
    IF visit = << >> THEN best
    ELSE IF \E i \in 1..Len(best) : best[i] = Head(visit)
         THEN best_candidates(Tail(visit), best, limit)
    ELSE IF Len(best) + 1 = limit THEN Append(best, Head(visit))
    ELSE best_candidates(Tail(visit), Append(best, Head(visit)), limit)

\* The candidates left in the order of the search
in_search_order(all_candidates) == all_candidates

\* wrappers.py:198-205: sorted(..., key=lambda c: -score_partial(c))
by_score(all_candidates) ==
    sorted(all_candidates,
           [c \in {all_candidates[i] : i \in 1..Len(all_candidates)} |-> 0 - c.score])

\* wrappers.py:157-221 on the candidates the searches of the allowed types
\* gave, each with its match score and the ids of its conversions to the
\* target type
search_best(all_candidates, limit) ==
    List(best_candidates(conversions(by_score(all_candidates)), << >>, limit))

CallSearchBest ==
    /\ fret = None
    /\ fret' = search_best(fargs.all_candidates, fargs.limit)
    /\ fargs' = [fargs EXCEPT !.f = "_search_best_type"]
    /\ UNCHANGED <<polled, sinput, again, spos, sops, sfetched, sdone, ssnap>>
    /\ UNCHANGED <<smVars, taskVars, singletonVars, storeVars, cacheVars>>

\* utils.py:91-123, one invocation of scale_weights after the other: the
\* invocation runs its loop and either returns or calls scale_weights again
\* for what is left, without include_all; fargs.res is the sum of the lists
\* of the invocations so far, which is what the returns add up
ScaleWeightsPass ==
    /\ fret = None
    /\ fargs.passes < MaxPasses
    /\ LET n == Len(fargs.relative_weights)
           loop == scale_while(
                     [i \in 1..n |-> IF fargs.include_all
                                     THEN fargs.relative_weights[i] - 1
                                     ELSE fargs.relative_weights[i]],
                     [i \in 1..n |-> IF fargs.include_all THEN 1 ELSE 0],
                     IF fargs.include_all THEN n ELSE 0, fargs.target_sum)
           res == [i \in 1..n |-> fargs.res[i] + loop.res[i]]
       IN  IF fargs.target_sum < n /\ fargs.include_all
           THEN /\ fret' = Exc("ValueError")
                /\ fargs' = [fargs EXCEPT !.f = "scale_weights",
                                          !.passes = @ + 1]
           ELSE IF loop.used < fargs.target_sum
           THEN /\ fret' = fret
                /\ fargs' = [fargs EXCEPT !.f = "scale_weights",
                                          !.passes = @ + 1,
                                          !.res = res,
                                          !.target_sum = @ - loop.used,
                                          !.include_all = FALSE]
           ELSE /\ fret' = List(res)
                /\ fargs' = [fargs EXCEPT !.f = "scale_weights",
                                          !.passes = @ + 1,
                                          !.res = res]
    /\ UNCHANGED <<polled, sinput, again, spos, sops, sfetched, sdone, ssnap>>
    /\ UNCHANGED <<smVars, taskVars, singletonVars, storeVars, cacheVars>>

-----------------------------------------------------------------------------
(* A search: DeezerWrapper.search run by the thread TaskManager.search_task
   starts *)

\* The provider holds two items of each type; a catalog says how many of
\* them a search finds and whether items have related items
TypeChars == [album |-> ALBUM, artist |-> ARTIST, track |-> TRACK]
Resource(item_type, n) ==
    [obj |-> 0, id |-> <<item_type, n>>, item_type |-> item_type,
     popularity |-> None]
Ids(items_) == {items_[i].id : i \in 1..Len(items_)}

\* wrappers.py:157-230: at most limit items of the target type
_search_best_type(catalog, target_type, limit) ==
    SubSeq(<<Resource(target_type, "1"), Resource(target_type, "2")>>, 1,
           IF catalog.found < limit THEN catalog.found ELSE limit)

\* ResourceFactory.dive / explore for one type: the items of the type other
\* than the item itself, at most limit of them
related_of_type(catalog, item_, item_type, limit) ==
    LET all == SelectSeq(<<Resource(item_type, "1"), Resource(item_type, "2")>>,
                         LAMBDA r : r.id # item_.id)
    IN  IF catalog.related
        THEN SubSeq(all, 1, IF Len(all) < limit THEN Len(all) ELSE limit)
        ELSE << >>

\* wrappers.py:615-686: the related items of every type that has a limit
\* other than 0, tracks first, then albums, then artists
recommend_from_item(catalog, item_, limit_per_type) ==
    LET of(item_type) ==
            IF item_type \in DOMAIN limit_per_type /\ limit_per_type[item_type] # 0
            THEN related_of_type(catalog, item_, item_type,
                                 limit_per_type[item_type])
            ELSE << >>
    IN  of("track") \o of("album") \o of("artist")

\* ItemStore.add_nodes(session_id, graph_key, items_, depth, selected_types,
\* task_id, is_backbone, color): every item is cached when it is not yet, and
\* becomes a node of the graph when it is not one; a snapshot of the graph is
\* published when a task id is given
RECURSIVE add_each(_, _, _)
add_each(st, a, items_) ==
    IF items_ = << >> THEN st
    ELSE LET item_ == Head(items_)
             s1 == IF item_.id \in DOMAIN st.items THEN st
                   ELSE [st EXCEPT !.items = Put(@, item_.id, item_)]
             s2 == IF item_.id \in DOMAIN s1.graphs[a.session_id][a.graph_key].node
                   THEN s1
                   ELSE [s1 EXCEPT !.graphs =
                           [add_node(@, a.session_id, a.graph_key, item_,
                                     a.selected_types, a.depth, a.color)
                              EXCEPT ![a.session_id][a.graph_key].node[item_.id] =
                                  Update(@, [is_backbone |-> a.is_backbone])]]
         IN  add_each(s2, a, Tail(items_))
add_nodes(st, a, items_) ==
    LET s0 == [st EXCEPT !.graphs = init_graph(@, a.session_id, a.graph_key)]
        s1 == add_each(s0, a, items_)
    IN  IF a.task_id # None
        THEN add_nodes_edges_to_task(s1, a.session_id, a.graph_key, a.task_id.v)
        ELSE s1

\* hash(graph_key), an int: not the key itself
hash(graph_key) == <<"#">> \o graph_key

\* The calls a thread makes, as the list of them in order
Fetch(kind, item_type, item_id, depth) ==
    [op |-> "fetch", kind |-> kind, item_type |-> item_type,
     item_id |-> item_id, depth |-> depth]
AddNodes(items_, depth, selected_types, is_backbone, color) ==
    [op |-> "add_nodes", items_ |-> items_, depth |-> depth,
     selected_types |-> selected_types, is_backbone |-> is_backbone,
     color |-> color]
Relate(parent_id, children_ids, kwargs) ==
    [op |-> "relate", parent_id |-> parent_id, children_ids |-> children_ids,
     kwargs |-> kwargs]

\* The depth test passing one level more
too_deep_one_more(depth, max_depth) == depth > max_depth + 1

\* wrappers.py:446-447
too_deep(depth, max_depth) == depth > max_depth

\* find_related with every type kept as a star type
star_types_unfiltered(star_types, backbone_type) == star_types

\* wrappers.py:518-520: the backbone type is no star type
star_types_but(star_types, backbone_type) ==
    SelectSeq(star_types, LAMBDA type_ : type_ # backbone_type)

\* wrappers.py:470-475: at most one item of the backbone type
backbone_extension_of(catalog, item_, backbone_type) ==
    recommend_from_item(catalog, item_, [t \in {backbone_type} |-> 1])

\* wrappers.py:482-502: the extension is added and related to the item
backbone_calls(item_, depth, backbone_type, backbone_extension) ==
    <<Fetch("backbone", backbone_type, item_.id, depth),
      AddNodes(backbone_extension, depth, <<TypeChars[backbone_type]>>,
               TRUE, "None"),
      Relate(item_.id, Ids(backbone_extension),
             [is_backbone |-> FALSE, color |-> "BACKBONE"])>>

\* Star edges that are shown
star_kwargs_shown ==
    [color |-> "BACKBONE", hidden |-> FALSE, is_backbone |-> FALSE]

\* wrappers.py:552-554
star_kwargs == [color |-> "BACKBONE", hidden |-> TRUE, is_backbone |-> FALSE]

\* wrappers.py:518-556: the star items of the item; in a search no colour is
\* given but to the recursive calls, which get that of the backbone
star_calls(catalog, item_, depth, backbone_type, star_types) ==
    LET stars == star_types_but(star_types, backbone_type)
        limit_per_type == _scale_per_type(REC_SIZE, stars)
        star_items == recommend_from_item(catalog, item_, limit_per_type.d)
    IN  IF stars # << >>
        THEN <<Fetch("star", "any", item_.id, depth),
               AddNodes(star_items, depth + 2, << >>, FALSE,
                        IF depth = 2 THEN "random" ELSE "BACKBONE"),
               Relate(item_.id, Ids(star_items), star_kwargs)>>
        ELSE << >>

\* find_related with the stars of an item written before its extension
RECURSIVE find_related_stars_first(_, _, _, _, _, _)
find_related_stars_first(catalog, item_, depth, max_depth, backbone_type, star_types) ==
    IF too_deep(depth, max_depth) THEN << >>
    ELSE
      LET backbone_extension ==
              backbone_extension_of(catalog, item_, backbone_type)
      IN  star_calls(catalog, item_, depth, backbone_type, star_types)
          \o backbone_calls(item_, depth, backbone_type, backbone_extension)
          \o (IF backbone_extension # << >>
               THEN find_related_stars_first(catalog, backbone_extension[1],
                                             depth + 1, max_depth,
                                             backbone_type, star_types)
               ELSE << >>)

\* wrappers.py:411-557, from a search: no limit, and an exploration mode with
\* the keys the validation asks for
RECURSIVE find_related(_, _, _, _, _, _)
find_related(catalog, item_, depth, max_depth, backbone_type, star_types) ==
    IF too_deep(depth, max_depth) THEN << >>
    ELSE
      LET backbone_extension ==
              backbone_extension_of(catalog, item_, backbone_type)
      IN  backbone_calls(item_, depth, backbone_type, backbone_extension)
          \o (IF backbone_extension # << >>
               THEN find_related(catalog, backbone_extension[1], depth + 1,
                                 max_depth, backbone_type, star_types)
               ELSE << >>)
          \o star_calls(catalog, item_, depth, backbone_type, star_types)

\* wrappers.py:356-409: find_related for every search result
RECURSIVE related_partial(_, _, _, _, _)
related_partial(catalog, search_results, max_depth, backbone_type, star_types) ==
    IF search_results = << >> THEN << >>
    ELSE find_related(catalog, Head(search_results), 2, max_depth,
                      backbone_type, star_types)
         \o related_partial(catalog, Tail(search_results), max_depth,
                            backbone_type, star_types)

\* wrappers.py:319-409
search(catalog, graph_key, restricted_types, max_depth) ==
    LET types == IF restricted_types # << >> THEN restricted_types ELSE ALL_TYPES
        backbone_type == get_backbone_type(types).v
        search_results == _search_best_type(catalog, backbone_type, REC_SIZE)
    IN  <<Fetch("search", backbone_type, << >>, 1),
          AddNodes(search_results, 1, << >>, TRUE, "None"),
          Relate(hash(graph_key), Ids(search_results),
                 [is_backbone |-> TRUE, color |-> "BACKBONE"])>>
        \o (IF max_depth >= 1
             THEN related_partial(catalog, search_results, max_depth,
                                  backbone_type, types)
             ELSE << >>)

\* task.py:42-59 around task_manager.py:81-126: the thread creates and runs
\* the task, searches, then completes the task with the graph it reads
expand_thread(catalog, graph_key, restricted_types, max_depth) ==
    <<[op |-> "create_task"], [op |-> "run_task"]>>
    \o search(catalog, graph_key, restricted_types, max_depth)
    \o <<[op |-> "complete_task"]>>

\* The effect of one call of the thread on the store and the registry
Do(st, c, session_id, graph_key, task_id) ==
    CASE c.op = "create_task" -> [st EXCEPT !.sm = create_task(@, task_id)]
      [] c.op = "run_task" -> [st EXCEPT !.sm = run_task(@, task_id)]
      [] c.op = "fetch" -> st
      [] c.op = "add_nodes" ->
            add_nodes(st, [session_id |-> session_id, graph_key |-> graph_key,
                           depth |-> c.depth, selected_types |-> c.selected_types,
                           color |-> c.color, task_id |-> Val(task_id),
                           is_backbone |-> c.is_backbone], c.items_)
      [] c.op = "relate" ->
            relate(st, session_id, graph_key, c.parent_id, c.children_ids,
                   Val(task_id), c.kwargs)
      [] c.op = "complete_task" ->
            LET current_graph == get_graph(st, session_id, graph_key)
            IN  [st EXCEPT !.sm = complete_task(@, task_id, COMPLETED,
                    Dict([nodes |-> nodes_to_dicts(current_graph),
                          edges |-> edges_to_dicts(current_graph)]))]

SearchKeywords == << <<"a">>, <<"b">> >>
SearchKey == graph_key_from_keywords(SearchKeywords)

\* task_manager.py:55-67: the query graph is set and the thread started
SearchTask ==
    /\ spos = "idle"
    /\ SetST(set_query_node(ST, "s1", SearchKeywords, Val(1), TRUE).st)
    /\ sops' = expand_thread(sinput.catalog, SearchKey, sinput.restricted_types,
                             sinput.max_depth)
    /\ spos' = "started"
    /\ UNCHANGED <<polled, fargs, fret, sinput, again, sfetched, sdone, ssnap>>
    /\ UNCHANGED <<last, qcalls, plainRelate, nops>>
    /\ UNCHANGED <<taskVars, singletonVars, cacheVars>>

\* The thread makes its next call
ThreadCall ==
    /\ sops # << >>
    /\ SetST(Do(ST, Head(sops), "s1", SearchKey, 1))
    /\ sops' = Tail(sops)
    /\ sfetched' = IF Head(sops).op = "fetch" THEN sfetched \cup {Head(sops)}
                   ELSE sfetched
    /\ sdone' = Append(sdone, Head(sops))
    /\ UNCHANGED <<polled, fargs, fret, sinput, again, spos, ssnap>>
    /\ UNCHANGED <<last, qcalls, plainRelate, nops>>
    /\ UNCHANGED <<taskVars, singletonVars, cacheVars>>

\* task_manager.py:55-67 once more, for the same keywords in the same session
\* while the thread of the first search is still running: the query graph is
\* set again, for a new task, and the thread of that task started.  The
\* graph the call then reads for its answer changes nothing.
SearchTaskAgain ==
    /\ spos # "idle"
    /\ sops # << >>
    /\ ~again.started
    /\ SetST(set_query_node(ST, "s1", SearchKeywords, Val(2), TRUE).st)
    /\ again' = [started |-> TRUE,
                 ops |-> expand_thread(sinput.catalog, SearchKey,
                                       sinput.restricted_types, sinput.max_depth),
                 done |-> << >>]
    /\ UNCHANGED <<polled, fargs, fret, sinput, spos, sops, sfetched, sdone, ssnap>>
    /\ UNCHANGED <<last, qcalls, plainRelate, nops>>
    /\ UNCHANGED <<taskVars, singletonVars, cacheVars>>

\* The thread of the second search makes its next call
ThreadCallAgain ==
    /\ again.ops # << >>
    /\ SetST(Do(ST, Head(again.ops), "s1", SearchKey, 2))
    /\ again' = [again EXCEPT !.ops = Tail(@),
                              !.done = Append(@, Head(again.ops))]
    /\ UNCHANGED <<polled, fargs, fret, sinput, spos, sops, sfetched, sdone, ssnap>>
    /\ UNCHANGED <<last, qcalls, plainRelate, nops>>
    /\ UNCHANGED <<taskVars, singletonVars, cacheVars>>

\* The handler that also drops the graph the task was writing
ProviderFailsDroppingGraph ==
    /\ sops # << >>
    /\ Head(sops).op = "fetch"
    /\ SetST([ST EXCEPT !.sm = fail_task(@, 1, Exc("DeezerErrorResponse")),
                        !.graphs["s1"][SearchKey] = NewDiGraph])
    /\ sops' = << >>
    /\ sfetched' = sfetched \cup {Head(sops)}
    /\ sdone' = Append(sdone, Head(sops))
    /\ UNCHANGED <<polled, fargs, fret, sinput, again, spos, ssnap>>
    /\ UNCHANGED <<last, qcalls, plainRelate, nops>>
    /\ UNCHANGED <<taskVars, singletonVars, cacheVars>>

\* task.py:47-53: a request to the provider raises inside the target; the
\* handler fails the task with the error and raises it again, which ends the
\* thread
ProviderFails ==
    /\ sops # << >>
    /\ Head(sops).op = "fetch"
    /\ SetST([ST EXCEPT !.sm = fail_task(@, 1, Exc("DeezerErrorResponse"))])
    /\ sops' = << >>
    /\ sfetched' = sfetched \cup {Head(sops)}
    /\ sdone' = Append(sdone, Head(sops))
    /\ UNCHANGED <<polled, fargs, fret, sinput, again, spos, ssnap>>
    /\ UNCHANGED <<last, qcalls, plainRelate, nops>>
    /\ UNCHANGED <<taskVars, singletonVars, cacheVars>>

\* wrappers.py:443-467, the input validation of find_related: the value the
\* call ends with there, or None when it goes on to the core
find_related_validation(item_, depth, max_depth, backbone_type, star_types, exploration_mode) ==
    IF item_ = None THEN List(<< >>)
    ELSE IF too_deep(depth, max_depth) THEN List(<< >>)
    ELSE IF /\ exploration_mode.t = "dict"
            /\ ~({backbone_type} \cup {star_types[i] : i \in 1..Len(star_types)}
                   = DOMAIN exploration_mode.d)
         THEN Exc("ValueError")
    ELSE IF backbone_type \notin {ALL_TYPES[i] : i \in 1..Len(ALL_TYPES)}
         THEN Exc("AssertionError")
    ELSE None

Pending == [t |-> "pending"]

\* DeezerWrapper.find_related(session_id, graph_key, item_, depth, max_depth,
\* backbone_type, star_types, task_id, exploration_mode) on the graph of a
\* search that has ended: the validation, then the calls of the core
\* wrappers.py:559-612: the calls fill makes for the item, or the exception
\* that leaves it; no test stands between alternative_types and
\* _scale_per_type
fill(catalog, item_, restricted_types, depth, color) ==
    LET alternative_types ==
            SelectSeq(restricted_types, LAMBDA type_ : type_ # item_.item_type)
        limit_per_type == _scale_per_type(REC_SIZE, alternative_types)
    IN  IF limit_per_type.t = "exc" THEN limit_per_type
        ELSE LET filled == recommend_from_item(catalog, item_, limit_per_type.d)
             IN  List(<<Fetch("fill", "any", item_.id, depth),
                        AddNodes(filled, depth + 2, << >>, FALSE, color),
                        Relate(item_.id, Ids(filled),
                               [color |-> "BACKBONE", hidden |-> TRUE,
                                is_backbone |-> FALSE])>>)

\* task_manager.py:206-217: expand_from_node fills the node first, with the
\* selected types, depth 1 and a random colour; find_related comes after
\* fill has returned
CallFill ==
    /\ fret = None
    /\ spos = "started"
    /\ sops = << >>
    /\ LET calls == fill(sinput.catalog, fargs.item_, fargs.restricted_types,
                         1, "random")
       IN  /\ fret' = IF calls.t = "exc" THEN calls ELSE Pending
           /\ sops' = IF calls.t = "exc" THEN << >> ELSE calls.v
    /\ fargs' = [fargs EXCEPT !.f = "fill"]
    /\ UNCHANGED <<polled, sinput, again, spos, sfetched, sdone, ssnap>>
    /\ UNCHANGED <<smVars, taskVars, singletonVars, storeVars, cacheVars>>

CallFindRelated ==
    /\ fret = None
    /\ spos = "started"
    /\ sops = << >>
    /\ LET checked == find_related_validation(fargs.item_, fargs.depth,
                           fargs.max_depth, fargs.backbone_type,
                           fargs.star_types, fargs.exploration_mode)
       IN  /\ fret' = IF checked = None THEN Pending ELSE checked
           /\ sops' = IF checked = None
                      THEN find_related(sinput.catalog, fargs.item_,
                                        fargs.depth, fargs.max_depth,
                                        fargs.backbone_type, fargs.star_types)
                      ELSE << >>
    /\ fargs' = [fargs EXCEPT !.f = "find_related"]
    /\ UNCHANGED <<polled, sinput, again, spos, sfetched, sdone, ssnap>>
    /\ UNCHANGED <<smVars, taskVars, singletonVars, storeVars, cacheVars>>

\* task_manager.py:68-75: the caller reads the nodes of the graph
ReadNodes ==
    /\ spos = "started"
    /\ ssnap' = [ssnap EXCEPT !.nodes =
                    List(nodes_to_dicts(get_graph(ST, "s1", SearchKey)))]
    /\ spos' = "nodes"
    /\ UNCHANGED <<polled, fargs, fret, sinput, again, sops, sfetched, sdone>>
    /\ UNCHANGED <<smVars, taskVars, singletonVars, storeVars, cacheVars>>

\* task_manager.py:76-79: the caller reads the edges and returns
ReadEdges ==
    /\ spos = "nodes"
    /\ ssnap' = [ssnap EXCEPT !.edges =
                    List(edges_to_dicts(get_graph(ST, "s1", SearchKey)))]
    /\ spos' = "returned"
    /\ UNCHANGED <<polled, fargs, fret, sinput, again, sops, sfetched, sdone>>
    /\ UNCHANGED <<smVars, taskVars, singletonVars, storeVars, cacheVars>>

-----------------------------------------------------------------------------
(* Initial states and specifications *)

InitSM == /\ status = EmptyDict
          /\ results = EmptyDict
          /\ errors = EmptyDict

InitTasks == /\ tpc = [t \in TaskIds |-> "new"]
             /\ ttask = [t \in TaskIds |->
                           [use_threading |-> FALSE, raises |-> FALSE, val |-> None]]
             /\ tlocal = [t \in TaskIds |-> None]
             /\ callerExc = [t \in TaskIds |-> None]
             /\ runReturned = [t \in TaskIds |-> FALSE]
             /\ npub = [t \in TaskIds |-> 0]
             /\ tpub = [t \in TaskIds |-> None]

InitSingleton == /\ instances = EmptyDict
                 /\ slocks = EmptyDict
                 /\ holder = EmptyDict
                 /\ spc = [th \in SThreads |-> "idle"]
                 /\ scls = [th \in SThreads |-> "ItemStore"]
                 /\ smylock = [th \in SThreads |-> 0]
                 /\ sgot = [th \in SThreads |-> 0]
                 /\ ctorCount = [c \in Classes |-> 0]

\* ItemStore.__init__, store.py:23-29
InitStore == /\ items = EmptyDict
             /\ graphs = EmptyDict
             /\ nextObj = 1
             /\ last = NoCall
             /\ qcalls = {}
             /\ plainRelate = {}
             /\ nops = 0

InitCache == /\ cpc = [th \in CThreads |-> "idle"]
             /\ carg = [th \in CThreads |-> NoArgs]
             /\ cret = [th \in CThreads |-> 0]

InitPolls == polled = [t \in TaskIds |-> << >>]
InitHelpers == fargs = NoArguments /\ fret = None
NoAgain == [started |-> FALSE, ops |-> << >>, done |-> << >>]
NoSearch == [restricted_types |-> << >>, max_depth |-> 0,
             catalog |-> [found |-> 0, related |-> FALSE]]
InitSearchTask == /\ spos = "idle"
                  /\ sops = << >>
                  /\ sfetched = {}
                  /\ sdone = << >>
                  /\ ssnap = [nodes |-> None, edges |-> None]
                  /\ again = NoAgain
InitApi == InitPolls /\ InitHelpers /\ sinput = NoSearch /\ InitSearchTask

\* Non-empty lists of at most n elements of S
Lists(S, n) == UNION {[1..k -> S] : k \in 1..n}

Init == InitSM /\ InitTasks /\ InitSingleton /\ InitStore /\ InitCache /\ InitApi

\* The store under a sequence of calls
Next ==
    \/ \E s \in Sessions, k \in GraphKeys : StoreInitGraph(s, k)
    \/ \E s \in Sessions, kw \in KeywordLists, o \in BOOLEAN :
          StoreSetQueryNode(s, kw, Val(1), o)
    \/ \E s \in Sessions, k \in GraphKeys, r \in SearchResults, a \in ParseArgs :
          StoreParseItems(s, k, r, a)
    \/ \E s \in Sessions, k \in GraphKeys, o \in RelateOptions :
          \E p \in RelatePairs(k) :
             StoreRelate(s, k, p.parent_id, p.children_ids, o.task_id, o.kwargs)

Spec == Init /\ [][Next]_vars

\* A graph built by relate calls, then read and pruned through the endpoints
GraphNodes == {<<"1">>, <<"2">>, <<"3">>}
NextGraph ==
    \/ StoreInitGraph("s1", <<"a", "+", "b">>)
    \/ \E p \in GraphNodes, c \in SUBSET GraphNodes :
          c # {} /\ StoreRelate("s1", <<"a", "+", "b">>, p, c, None, EmptyDict)
    \/ \E k \in GraphKeys, n \in GraphNodes, r \in BOOLEAN :
          StoreGetSuccessors("s1", k, n, r)
    \/ \E n \in GraphNodes, c \in BOOLEAN :
          ApiDelete("s1", <<"a", "+", "b">>, n, c)

SpecGraph == Init /\ [][NextGraph]_vars

\* A graph whose nodes have the ids 1, 12 and 21
PairNodes == {<<"1">>, <<"1", "2">>, <<"2", "1">>}
NextPairs ==
    \/ StoreInitGraph("s1", SearchKey)
    \/ \E p \in PairNodes, c \in PairNodes :
          StoreRelate("s1", SearchKey, p, {c}, None, EmptyDict)
SpecPairs == Init /\ [][NextPairs]_vars

\* A query graph whose nodes are related to each other and to the query node,
\* and deleted through the endpoint
NextRoot ==
    \/ \E o \in BOOLEAN : StoreSetQueryNode("s1", SearchKeywords, None, o)
    \/ \E p \in RelatePairs(SearchKey), o \in RelateOptions :
          StoreRelate("s1", SearchKey, p.parent_id, p.children_ids, o.task_id,
                      o.kwargs)
    \/ \E n \in {<<"1">>, <<"2">>, SearchKey}, c \in BOOLEAN :
          ApiDelete("s1", SearchKey, n, c)
SpecRoot == Init /\ [][NextRoot]_vars

\* Tasks run by worker threads and synchronous callers
NextTask ==
    \/ \E t \in TaskIds, thr \in BOOLEAN, v \in ReturnValues : TaskRun(t, thr, FALSE, v)
    \/ \E t \in TaskIds, thr \in BOOLEAN, e \in Exceptions : TaskRun(t, thr, TRUE, e)
    \/ \E t \in TaskIds : TaskCreate(t)
    \/ \E t \in TaskIds : TaskSetRunning(t)
    \/ \E t \in TaskIds, snap \in Snapshots : TargetPublish(t, snap)
    \/ \E t \in TaskIds : TargetEnd(t)
    \/ \E t \in TaskIds : ExceptHandler(t)
    \/ \E t \in TaskIds : TaskReraise(t)
    \/ \E t \in TaskIds : TaskComplete(t)

SpecTask == Init /\ [][NextTask]_vars

\* Tasks under fair scheduling: the thread or caller that runs a task always
\* gets to make its next step, and the target ends
RunStep(t) ==
    \/ TaskCreate(t)
    \/ TaskSetRunning(t)
    \/ TargetEnd(t)
    \/ ExceptHandler(t)
    \/ TaskReraise(t)
    \/ TaskComplete(t)
NextRun ==
    \/ \E t \in TaskIds, thr \in BOOLEAN, v \in ReturnValues : TaskRun(t, thr, FALSE, v)
    \/ \E t \in TaskIds, thr \in BOOLEAN, e \in Exceptions : TaskRun(t, thr, TRUE, e)
    \/ \E t \in TaskIds : TaskCreate(t)
    \/ \E t \in TaskIds : TaskSetRunning(t)
    \/ \E t \in TaskIds : TargetEnd(t)
    \/ \E t \in TaskIds : ExceptHandler(t)
    \/ \E t \in TaskIds : TaskReraise(t)
    \/ \E t \in TaskIds : TaskComplete(t)
SpecRun ==
    Init /\ [][NextRun]_vars /\ \A t \in TaskIds : WF_vars(RunStep(t))

\* A task started by an endpoint, which runs it in a thread
\* (task_manager.py:59-67, 161-169), and clients polling its id and the others
NextPoll ==
    \/ \E v \in ReturnValues : TaskRun(1, TRUE, FALSE, v)
    \/ \E e \in Exceptions : TaskRun(1, TRUE, TRUE, e)
    \/ \E t \in TaskIds : TaskCreate(t)
    \/ \E t \in TaskIds : TaskSetRunning(t)
    \/ \E t \in TaskIds, snap \in Snapshots : TargetPublish(t, snap)
    \/ \E t \in TaskIds : TargetEnd(t)
    \/ \E t \in TaskIds : ExceptHandler(t)
    \/ \E t \in TaskIds : TaskReraise(t)
    \/ \E t \in TaskIds : TaskComplete(t)
    \/ \E t \in TaskIds : get_task_status(t)

SpecPoll == Init /\ [][NextPoll]_vars

\* scale_weights on lists of weights of at least 1 and any target
InitScale ==
    /\ InitSM /\ InitTasks /\ InitSingleton /\ InitStore /\ InitCache /\ InitPolls
    /\ sinput = NoSearch /\ InitSearchTask
    /\ fargs \in [f : {"none"},
                   relative_weights : Lists(1..MaxWeight, MaxLen),
                   target_sum : 0..MaxTarget, include_all : BOOLEAN]
    /\ fret = None
NextScale == CallScaleWeights
SpecScale == InitScale /\ [][NextScale]_vars

\* get_backbone_type and _scale_per_type on lists of types, in every order
InitBackbone ==
    /\ InitSM /\ InitTasks /\ InitSingleton /\ InitStore /\ InitCache /\ InitPolls
    /\ sinput = NoSearch /\ InitSearchTask
    /\ fargs \in [f : {"none"},
                   restricted_types : Lists({"album", "artist", "track"}, MaxLen),
                   limit : 0..MaxTarget]
    /\ fret = None
NextBackbone == CallGetBackboneType \/ CallScalePerType
SpecBackbone == InitBackbone /\ [][NextBackbone]_vars

\* A search for every list of selected types, depth and catalog
InitSearch ==
    /\ InitSM /\ InitTasks /\ InitSingleton /\ InitStore /\ InitCache /\ InitPolls
    /\ InitHelpers /\ InitSearchTask
    /\ sinput \in [restricted_types :
                       {<< >>} \cup Lists({"album", "artist", "track"}, MaxTypes),
                    max_depth : 0..MaxDepth,
                    catalog : [found : 0..2, related : BOOLEAN]]
NextSearch ==
    SearchTask \/ ThreadCall \/ ProviderFails \/ ReadNodes \/ ReadEdges
SpecSearch == InitSearch /\ [][NextSearch]_vars

\* Two searches on the same keywords in one session, the second started
\* while the thread of the first is running
InitAgain ==
    /\ InitSM /\ InitTasks /\ InitSingleton /\ InitStore /\ InitCache /\ InitPolls
    /\ InitHelpers /\ InitSearchTask
    /\ sinput \in [restricted_types : {<<"artist">>, <<"artist", "track">>},
                    max_depth : 1..2,
                    catalog : [found : 1..2, related : BOOLEAN]]
NextAgain == SearchTask \/ ThreadCall \/ SearchTaskAgain \/ ThreadCallAgain
SpecAgain == InitAgain /\ [][NextAgain]_vars

\* A search of task 1 next to another task, 2, of the registry
InitFail ==
    /\ InitSM /\ InitTasks /\ InitSingleton /\ InitStore /\ InitCache /\ InitPolls
    /\ InitHelpers /\ InitSearchTask
    /\ sinput \in [restricted_types : {<< >>, <<"artist">>},
                    max_depth : 0..MaxDepth,
                    catalog : [found : 0..2, related : BOOLEAN]]
\* _search_best_type for every list of candidates with a score of 0 or 1 and
\* up to two conversions among two ids, and every limit
ConvertedIds == {"1", "2"}
Candidates ==
    [score : {0, 1}, converted : {<< >>} \cup Lists(ConvertedIds, 2)]
InitBest ==
    /\ InitSM /\ InitTasks /\ InitSingleton /\ InitStore /\ InitCache /\ InitPolls
    /\ sinput = NoSearch /\ InitSearchTask
    /\ fargs \in [f : {"none"},
                   all_candidates : {<< >>} \cup Lists(Candidates, MaxLen),
                   limit : 1..MaxLen]
    /\ fret = None
NextBest == CallSearchBest
SpecBest == InitBest /\ [][NextBest]_vars

\* scale_weights for lists of weights that may be 0 and targets that are at
\* least the number of bins, one invocation a step
InitPasses ==
    /\ InitSM /\ InitTasks /\ InitSingleton /\ InitStore /\ InitCache /\ InitPolls
    /\ sinput = NoSearch /\ InitSearchTask
    /\ \E w \in Lists(0..MaxWeight, MaxLen), t \in 0..MaxTarget, b \in BOOLEAN :
          /\ t >= Len(w)
          /\ fargs = [f |-> "none", relative_weights |-> w,
                      target_sum |-> t,
                      include_all |-> b, res |-> [i \in 1..Len(w) |-> 0],
                      passes |-> 0]
    /\ fret = None
NextPasses == ScaleWeightsPass
SpecPasses == InitPasses /\ [][NextPasses]_vars

\* find_related called on the graph of a search of one seed
ExplorationModes ==
    {Val(FALSE), Val(TRUE)}
    \cup {Dict([t \in S |-> FALSE]) : S \in SUBSET {"album", "artist", "track"}}
InitExpand ==
    /\ InitSM /\ InitTasks /\ InitSingleton /\ InitStore /\ InitCache /\ InitPolls
    /\ InitSearchTask
    /\ sinput = [restricted_types |-> <<"artist">>, max_depth |-> 0,
                 catalog |-> [found |-> 1, related |-> TRUE]]
    /\ fargs \in [f : {"none"},
                   item_ : {None, Resource("artist", "1")},
                   depth : 1..MaxDepth + 1,
                   max_depth : 0..MaxDepth,
                   backbone_type : {"artist", "track"},
                   star_types : Lists({"album", "artist", "track"}, MaxTypes),
                   exploration_mode : ExplorationModes]
    /\ fret = None

\* An expansion of a node of the graph of a search: the node is the first
\* result of the search, the selected types are any list of types
InitFill ==
    /\ InitSM /\ InitTasks /\ InitSingleton /\ InitStore /\ InitCache /\ InitPolls
    /\ InitSearchTask
    /\ sinput \in [restricted_types : {<<"artist">>, <<"track">>},
                    max_depth : {0},
                    catalog : [found : 1..2, related : BOOLEAN]]
    /\ fargs \in [f : {"none"},
                   item_ : {Resource(sinput.restricted_types[1], "1")},
                   restricted_types : Lists({"album", "artist", "track"}, MaxTypes)]
    /\ fret = None
NextFill == SearchTask \/ ThreadCall \/ CallFill
SpecFill == InitFill /\ [][NextFill]_vars

NextExpand == SearchTask \/ ThreadCall \/ CallFindRelated
SpecExpand == InitExpand /\ [][NextExpand]_vars

NextFail ==
    \/ SearchTask
    \/ ThreadCall
    \/ ProviderFails
    \/ \E v \in ReturnValues : TaskRun(2, TRUE, FALSE, v)
    \/ TaskCreate(2)
    \/ TaskSetRunning(2)
    \/ TargetEnd(2)
    \/ TaskComplete(2)
SpecFail == InitFail /\ [][NextFail]_vars

\* dive for every target type, limit and answers of the provider
InitDive ==
    /\ InitSM /\ InitTasks /\ InitSingleton /\ InitStore /\ InitCache /\ InitPolls
    /\ sinput = NoSearch /\ InitSearchTask
    /\ fargs \in [f : {"none"}, target_type : {"album", "artist", "track"},
                   limit : 1..MaxTarget, artists : Lists(ArtistAnswers, MaxLen)]
    /\ fret = None
NextDive == CallDive

\* A fetch of recommend_from_item for one type: dive or explore, on an item
\* with no, one or more contributing artists
InitFetch ==
    /\ InitSM /\ InitTasks /\ InitSingleton /\ InitStore /\ InitCache /\ InitPolls
    /\ sinput = NoSearch /\ InitSearchTask
    /\ fargs \in [f : {"none"}, target_type : {"album", "artist", "track"},
                   limit : 1..MaxTarget,
                   artists : Lists(ArtistAnswers, MaxLen) \cup {<< >>}]
    /\ fret = None
NextFetch == CallDive \/ CallExplore
SpecFetch == InitFetch /\ [][NextFetch]_vars
SpecDive == InitDive /\ [][NextDive]_vars

\* Threads calling the singleton classes
NextSingleton ==
    \/ \E th \in SThreads, c \in Classes : SCall(th, c)
    \/ \E th \in SThreads : SCheckInstance(th)
    \/ \E th \in SThreads : SCheckLock(th)
    \/ \E th \in SThreads : SNewLock(th)
    \/ \E th \in SThreads : SReadLock(th)
    \/ \E th \in SThreads : SAcquire(th)
    \/ \E th \in SThreads : SRecheckInstance(th)
    \/ \E th \in SThreads : SConstruct(th)
    \/ \E th \in SThreads : SRelease(th)
    \/ \E th \in SThreads : SReturn(th)

SpecSingleton == Init /\ [][NextSingleton]_vars

\* Worker threads parsing items into the shared store
NextCache ==
    \/ \E th \in CThreads, s \in Sessions, k \in GraphKeys, e \in CEntries,
          a \in ParseArgs : CStart(th, s, k, e, a)
    \/ \E th \in CThreads : CCheckCache(th)
    \/ \E th \in CThreads : CStoreItem(th)
    \/ \E th \in CThreads : CCheckNode(th)
    \/ \E th \in CThreads : CAddNode(th)
    \/ \E th \in CThreads : CPublish(th)
    \/ \E th \in CThreads : CReturn(th)

SpecCache == Init /\ [][NextCache]_vars

-----------------------------------------------------------------------------
(* Properties of the task registry, under SpecTask *)

\* C1: a Task whose target raises never has status completed; once its
\* handler has run its status is failed and the error stored for it is the
\* exception raised; when the run has ended the caller of run() has received
\* that exception if the run was synchronous, and nothing if it was threaded.
C1_RaisingTaskFails ==
    \A t \in TaskIds :
        ttask[t].raises =>
            /\ get_status(SM, t) # COMPLETED
            /\ (tpc[t] \in {"reraise", "done"} =>
                    /\ get_status(SM, t) = FAILED
                    /\ Get(errors, t, None) = ttask[t].val)
            /\ (tpc[t] = "done" =>
                    callerExc[t] = IF ttask[t].use_threading THEN None
                                   ELSE ttask[t].val)
            /\ (tpc[t] # "done" => callerExc[t] = None)

\* A synchronous and a threaded run have both ended on a raised exception.
C1_Witness ==
    \E t1, t2 \in TaskIds :
        /\ ttask[t1].raises /\ ~ttask[t1].use_threading /\ tpc[t1] = "done"
        /\ callerExc[t1] = ttask[t1].val
        /\ ttask[t2].raises /\ ttask[t2].use_threading /\ tpc[t2] = "done"
        /\ get_status(SM, t2) = FAILED

\* C2 as the specification states it: a Task whose target returned has status
\* completed and the result stored for it is the value returned, whatever that
\* value is and whatever was published during the run.
C2_ResultIsReturnValue ==
    \A t \in TaskIds :
        (~ttask[t].raises /\ tpc[t] = "done") =>
            /\ get_status(SM, t) = COMPLETED
            /\ Get(results, t, None) = ttask[t].val

\* C2, amended: a Task whose target returned has status completed and no
\* error; the result stored for it is the value returned when that value is
\* not None, and when the target returned None it is what was stored before:
\* the last intermediate result published during the run, or nothing.
C2_ResultIsReturnValueOrLastSnapshot ==
    \A t \in TaskIds :
        (~ttask[t].raises /\ tpc[t] = "done") =>
            /\ get_status(SM, t) = COMPLETED
            /\ t \notin DOMAIN errors
            /\ callerExc[t] = None
            /\ Get(results, t, None) = IF ttask[t].val # None THEN ttask[t].val
                                       ELSE tpub[t]

\* A target published a snapshot, returned None, and the run has ended; another
\* returned a value after publishing.
C2_Witness ==
    \E t1, t2 \in TaskIds :
        /\ ~ttask[t1].raises /\ tpc[t1] = "done"
        /\ ttask[t1].val = None /\ tpub[t1] # None
        /\ ~ttask[t2].raises /\ tpc[t2] = "done"
        /\ ttask[t2].val # None /\ tpub[t2] # None

\* The one-step moves of a status that C3 allows
StatusMove(a, b) ==
    \/ a = b
    \/ a = NOT_FOUND /\ b = CREATED
    \/ a = CREATED /\ b = RUNNING
    \/ a = RUNNING /\ b \in {COMPLETED, FAILED}

C15_IntermediateResultOnlySetsResult ==
    [][\A t \in TaskIds :
          npub'[t] # npub[t] =>
              /\ t \in DOMAIN results' /\ results'[t] = tpub'[t]
              /\ DOMAIN results' = (DOMAIN results) \cup {t}
              /\ \A u \in (DOMAIN results) \ {t} : results'[u] = results[u]
              /\ status' = status
              /\ errors' = errors]_vars

\* A running task has published its second result, replacing the first, while
\* another task has failed with its error stored.
C15_Witness ==
    \E t, u \in TaskIds :
        /\ npub[t] = 2 /\ tpc[t] = "target"
        /\ results[t] = tpub[t] /\ get_status(SM, t) = RUNNING
        /\ u # t /\ get_status(SM, u) = FAILED /\ u \in DOMAIN errors

-----------------------------------------------------------------------------
(* Properties of the status polls, under SpecPoll *)

\* What the poll made in this step returned
Polled(id) == polled'[id][Len(polled'[id])]

\* C16: a poll of a task id the registry does not know returns a map whose
\* status is not_found and raises nothing; it changes nothing in the
\* registry, so that afterwards the id is not among all_tasks and a further
\* poll of it reports not_found again.
C16_UnknownIdIsNotFound ==
    [][\A id \in TaskIds :
          (polled'[id] # polled[id] /\ id \notin DOMAIN status) =>
              /\ Polled(id).t = "dict"
              /\ Polled(id).d.status = NOT_FOUND
              /\ <<status, results, errors>>' = <<status, results, errors>>
              /\ id \notin {r.task_id : r \in all_tasks(SM')}
              /\ get_status_and_result(SM', id) = Polled(id)]_vars

\* An id was polled twice and is still unknown, while the registry knows
\* another task.
C16_Witness ==
    \E id, u \in TaskIds :
        /\ Len(polled[id]) = 2 /\ id \notin DOMAIN status
        /\ polled[id][2].d.status = NOT_FOUND
        /\ u \in DOMAIN status

-----------------------------------------------------------------------------
(* Properties of the helper functions, under SpecScale and SpecBackbone *)

\* C18: for a non-empty list w of weights of at least 1 and a target t of at
\* least len(w), scale_weights(w, t, include_all=True) returns a list of
\* len(w) integers that are all at least 1 and whose sum is exactly t.
C18_ScaledWeightsSumToTarget ==
    (/\ fargs.f = "scale_weights" /\ fargs.include_all
     /\ fargs.target_sum >= Len(fargs.relative_weights)) =>
        /\ fret.t = "list"
        /\ Len(fret.v) = Len(fargs.relative_weights)
        /\ \A i \in 1..Len(fret.v) : fret.v[i] \in Int /\ fret.v[i] >= 1
        /\ sum(fret.v) = fargs.target_sum

\* The target exceeds the sum of the weights, so that the loop leaves a rest
\* to share out: scale_weights([1, 2], 5) has returned [2, 3].
C18_Witness ==
    /\ fargs.f = "scale_weights" /\ fargs.include_all
    /\ fargs.relative_weights = <<1, 2>> /\ fargs.target_sum = 5
    /\ fret = List(<<2, 3>>)

\* ceil(a / b) for positive integers
CeilDiv(a, b) == (a + b - 1) \div b

\* C29: scale_weights(w, t) with include_all is the greedy allocation: it
\* returns [1, 1] for ([1, 2], 2), [1, 2] for ([1, 2], 3) and [2, 3] for
\* ([1, 2], 5), and for equal weights and t >= len(w) the bins differ by at
\* most 1, the larger ones standing before the smaller ones.
C29_GreedyAllocation ==
    (fargs.f = "scale_weights" /\ fargs.include_all) =>
        LET w == fargs.relative_weights
            t == fargs.target_sum
        IN  /\ (w = <<1, 2>> /\ t = 2) => fret = List(<<1, 1>>)
            /\ (w = <<1, 2>> /\ t = 3) => fret = List(<<1, 2>>)
            /\ (w = <<1, 2>> /\ t = 5) => fret = List(<<2, 3>>)
            /\ ((\A i \in 1..Len(w) : w[i] = w[1]) /\ t >= Len(w)) =>
                   /\ fret.t = "list"
                   /\ \A i, j \in 1..Len(w) :
                         i < j => fret.v[i] - fret.v[j] \in {0, 1}

\* Three equal weights and a target that leaves one unit over after two
\* rounds: the first bin has it.
C29_Witness ==
    /\ fargs.f = "scale_weights" /\ fargs.include_all
    /\ fargs.relative_weights = <<2, 2, 2>> /\ fargs.target_sum = 4
    /\ fret = List(<<2, 1, 1>>)

\* C30: for weights of at least 1 and a target t of at least len(w), bin i
\* of scale_weights(w, t) is at most w[i] * ceil(t / sum(w)).
C30_NoBinAboveItsShare ==
    (/\ fargs.f = "scale_weights" /\ fargs.include_all
     /\ fargs.target_sum >= Len(fargs.relative_weights)) =>
        /\ fret.t = "list"
        /\ \A i \in 1..Len(fret.v) :
              fret.v[i] <= fargs.relative_weights[i]
                             * CeilDiv(fargs.target_sum, sum(fargs.relative_weights))

\* The target is twice the total weight and every bin has twice its weight.
C30_Witness ==
    /\ fargs.f = "scale_weights" /\ fargs.include_all
    /\ fargs.relative_weights = <<1, 2>> /\ fargs.target_sum = 6
    /\ fret = List(<<2, 4>>)

\* The items of the artists from i on that answer without an error
RECURSIVE AnsweredFrom(_, _, _)
AnsweredFrom(artists, limits, i) ==
    IF i > Len(limits) THEN << >>
    ELSE (IF artists[i] = "error" THEN << >>
          ELSE sample_or_all(provider_items(artists, i), limits[i]))
         \o AnsweredFrom(artists, limits, i + 1)

\* C28: dive for tracks or albums raises nothing when the provider answers
\* an artist with an error: it returns the items of the other artists, in
\* their order, and nothing for the artist that failed.
C28_DiveSkipsFailingArtist ==
    (fargs.f = "dive" /\ fargs.target_type \in {"album", "track"}) =>
        LET n == IF Len(fargs.artists) < fargs.limit
                 THEN Len(fargs.artists) ELSE fargs.limit
        IN  fret = List(AnsweredFrom(fargs.artists,
                           scale_weights([i \in 1..n |-> 1], fargs.limit, TRUE).v, 1))

-----------------------------------------------------------------------------
(* Properties of a search, under SpecSearch *)

\* The query node as search_task leaves it before it starts the thread
QueryNodeOnly ==
    nodes_to_dicts(nx_add_node(NewDiGraph, SearchKey,
                               query_node_attrs(SearchKey, SearchKeywords, Val(1))))

\* C14: what search_task returns holds the query node and nothing else: no
\* other node and no edge, however the steps of the thread it started fall
\* between its own.
C14_SnapshotIsQueryNodeOnly ==
    spos = "returned" =>
        /\ ssnap.nodes = List(QueryNodeOnly)
        /\ ssnap.edges = List({})

\* C20: when the selected types are one type, that type is the backbone type
\* of the search, the thread makes no request for star items, and the graph
\* never holds a node that is not of the backbone nor a hidden edge, for every
\* depth.
C20_SingleTypeHasNoStar ==
    LET listed == {sinput.restricted_types[i] :
                      i \in 1..Len(sinput.restricted_types)}
        g == graphs["s1"][SearchKey]
    IN  (Cardinality(listed) = 1 /\ spos # "idle") =>
            /\ \A f \in sfetched :
                  /\ f.kind # "star"
                  /\ f.item_type \in listed
            /\ \A n \in DOMAIN g.node :
                  "is_backbone" \in DOMAIN g.node[n] => g.node[n].is_backbone
            /\ \A e \in DOMAIN g.edge :
                  "hidden" \in DOMAIN g.edge[e] => ~g.edge[e].hidden

\* A search on artists alone to depth 3 has ended: the search and the
\* backbone requests were made and the graph holds two artists.
C20_Witness ==
    /\ sinput.restricted_types = <<"artist">> /\ sinput.max_depth = 3
    /\ spos # "idle" /\ sops = << >>
    /\ {f.kind : f \in sfetched} = {"search", "backbone"}
    /\ {<<"artist", "1">>, <<"artist", "2">>}
           \subseteq DOMAIN graphs["s1"][SearchKey].node
    /\ get_status(SM, 1) = COMPLETED

-----------------------------------------------------------------------------
(* Properties of the singleton metaclass, under SpecSingleton *)

\* C4: whatever the interleaving of the threads' first calls, the constructor
\* of each class has run at most once and the calls that have returned for
\* one class returned the same instance.
C4_ConstructedOnce ==
    /\ \A c \in Classes : ctorCount[c] <= 1
    /\ \A th1, th2 \in SThreads :
          (spc[th1] = "done" /\ spc[th2] = "done" /\ scls[th1] = scls[th2])
              => sgot[th1] = sgot[th2]

-----------------------------------------------------------------------------
(* Properties of the store under a sequence of calls, under Spec *)

StoreCall(op) == nops' = nops + 1 /\ last'.op = op

\* The nodes of a graph that are query nodes
QueryNodes(g) ==
    {n \in DOMAIN g.node : /\ "node_type" \in DOMAIN g.node[n]
                           /\ g.node[n].node_type = "query"}

\* C5: in a graph on which every relate call was made with no_doubles, no two
\* distinct nodes are joined by an edge in each direction, that is, every
\* unordered pair is joined by at most one edge.
C5_NoDoubleEdges ==
    \A s \in DOMAIN graphs : \A k \in DOMAIN graphs[s] :
        <<s, k>> \notin plainRelate =>
            \A e \in DOMAIN graphs[s][k].edge :
                e[1] # e[2] => <<e[2], e[1]>> \notin DOMAIN graphs[s][k].edge

\* C23: when a relate call made with no_doubles has ended, whenever the
\* other calls on the graph ran, each child of the call is joined to the
\* parent by at most one edge, counting both directions, and parent and
\* children are nodes of the graph.
C23_OneEdgePerPairAfterRelate ==
    (last.op = "relate" /\ last.no_doubles) =>
        LET g == graphs[last.session_id][last.graph_key]
        IN  \A c \in last.ids :
                /\ {last.parent_id, c} \subseteq DOMAIN g.node
                /\ c # last.parent_id =>
                      Cardinality({<<c, last.parent_id>>, <<last.parent_id, c>>}
                                     \cap DOMAIN g.edge) <= 1

\* C7 as the specification states it: a parse call all of whose item ids are
\* already nodes of the target graph leaves that graph as it was, whatever
\* calls came before.
C7_InsertExistingNodeIsNoOp ==
    [][(StoreCall("parse_items") /\ last'.ids \subseteq last'.nodesBefore)
          => graphs'[last'.session_id][last'.graph_key]
                = graphs[last'.session_id][last'.graph_key]]_vars

\* C7, amended: a parse call leaves every node that already carries attributes
\* as it was and leaves the edges as they were; it adds no node when all its
\* item ids are already nodes of the graph; and it is a no-op on the graph
\* when all its item ids are nodes that already carry attributes (a node that
\* exists only as the end of an edge made by relate carries none, and gets
\* them from the first insertion).
C7_InsertStyledNodeIsNoOp ==
    [][StoreCall("parse_items") =>
          LET s == last'.session_id
              k == last'.graph_key
              old == IF HasGraph(graphs, s, k) THEN graphs[s][k] ELSE NewDiGraph
              new == graphs'[s][k]
          IN  /\ \A n \in last'.styledBefore :
                    n \in DOMAIN new.node /\ new.node[n] = old.node[n]
              /\ new.edge = old.edge
              /\ (last'.ids \subseteq last'.nodesBefore
                     => DOMAIN new.node = DOMAIN old.node)
              /\ (last'.ids \subseteq last'.styledBefore => new = old)]_vars

\* The last call inserted items that were all nodes carrying attributes, one
\* of them with a depth other than the one it was first inserted with.
C7_Witness ==
    /\ last.op = "parse_items"
    /\ last.ids # {}
    /\ last.ids \subseteq last.styledBefore
    /\ \E n \in last.ids :
          graphs[last.session_id][last.graph_key].node[n].depth # last.depth

C9_OverrideDiscardsGraph ==
    [][(/\ StoreCall("set_query_node")
        /\ last'.override
        /\ HasGraph(graphs, last'.session_id, last'.ret)) =>
          LET s == last'.session_id
              k == last'.ret
              g == graphs'[s][k]
          IN  /\ DOMAIN g.node = {k}
              /\ g.node[k] = query_node_attrs(k, last'.query_kw, Val(1))
              /\ g.edge = EmptyDict
              /\ DOMAIN graphs' = DOMAIN graphs
              /\ \A s2 \in DOMAIN graphs :
                    /\ DOMAIN graphs'[s2] = DOMAIN graphs[s2]
                    /\ \A k2 \in DOMAIN graphs[s2] :
                          <<s2, k2>> # <<s, k>> => graphs'[s2][k2] = graphs[s2][k2]]_vars

\* The last call was an override on a graph that held more than one node or
\* edge, in a session that holds another graph.
C9_Witness ==
    /\ last.op = "set_query_node"
    /\ last.override
    /\ last.sizeBefore > 1
    /\ Cardinality(DOMAIN graphs[last.session_id]) > 1
    /\ GraphSize(graphs[last.session_id][last.ret]) = 1

\* C11: after a relate call every child of the call is a successor of the
\* parent and the parent is a predecessor of every child: the graph holds the
\* edge from the parent to the child.
C11_EdgeFromParentToChild ==
    last.op = "relate" =>
        LET g == graphs[last.session_id][last.graph_key]
        IN  \A c \in last.ids :
                /\ c \in successors(g, last.parent_id)
                /\ last.parent_id \in predecessors(g, c)

\* The nodes reached from n by one or more edges
RECURSIVE Descendants(_, _, _)
Descendants(g, frontier, seen) ==
    LET next == UNION {successors(g, x) : x \in frontier} \ seen
    IN  IF next = {} THEN seen ELSE Descendants(g, next, seen \cup next)
Reachable(g, n) == Descendants(g, {n}, {})

\* C12: a recursive get_successors call returns, without raising, exactly the
\* nodes reachable from its start node by one or more edges of the graph,
\* cycles and a start node on a cycle included.
C12_RecursiveSuccessorsAreReachable ==
    (last.op = "get_successors" /\ last.recursive) =>
        LET g == IF HasGraph(graphs, last.session_id, last.graph_key)
                 THEN graphs[last.session_id][last.graph_key] ELSE NewDiGraph
        IN  last.result = List(Reachable(g, last.node_id))

\* C13: a cascading delete of node n removes n and the nodes reachable from
\* n and no other node, removes the edges incident to a removed node and no
\* other edge (four nodes go for a node with two successors and one
\* grandchild).
C13_CascadingDeleteRemovesDescendants ==
    [][(StoreCall("delete") /\ last'.cascading) =>
          LET old == graphs[last'.session_id][last'.graph_key]
              new == graphs'[last'.session_id][last'.graph_key]
              gone == {last'.node_id} \cup Reachable(old, last'.node_id)
          IN  /\ DOMAIN new.node = (DOMAIN old.node) \ gone
              /\ DOMAIN new.edge = {e \in DOMAIN old.edge :
                                       e[1] \notin gone /\ e[2] \notin gone}
              /\ \A n \in DOMAIN new.node : new.node[n] = old.node[n]
              /\ \A e \in DOMAIN new.edge : new.edge[e] = old.edge[e]]_vars

\* Two keyword lists that hold the same keywords, in any order
SameKeywords(a, b) ==
    /\ Len(a) = Len(b)
    /\ \A i \in DOMAIN a :
          Cardinality({j \in DOMAIN a : a[j] = a[i]})
              = Cardinality({j \in DOMAIN b : b[j] = a[i]})

\* C10: two set_query_node calls made in one session with the same keywords,
\* in whatever order the keywords are given, returned the same graph key.
C10_KeyIgnoresKeywordOrder ==
    \A c1, c2 \in qcalls :
        (c1.session_id = c2.session_id /\ SameKeywords(c1.query_kw, c2.query_kw))
            => c1.ret = c2.ret

-----------------------------------------------------------------------------
(* Properties of the item cache under concurrent parse calls, under SpecCache *)

\* C6: in every step of every interleaving of insertions, an item object
\* cached under an id stays the object cached under that id.
C6_CachedItemNeverReplaced ==
    [][\A id \in DOMAIN items :
          id \in DOMAIN items' /\ items'[id] = items[id]]_vars

-----------------------------------------------------------------------------
(* The backbone and the stars of a search *)

SearchGraph == graphs["s1"][SearchKey]

\* The calls of the thread that relate the items of a backbone add_nodes
BackboneRelates ==
    {i \in 2..Len(sdone) : /\ sdone[i].op = "relate"
                            /\ sdone[i - 1].op = "add_nodes"
                            /\ sdone[i - 1].is_backbone}

Joined(g, a, b, attr) ==
    \E e \in {<<a, b>>, <<b, a>>} \cap DOMAIN g.edge :
        attr \in DOMAIN g.edge[e] /\ g.edge[e][attr] = TRUE

\* C24: every backbone edge is marked is_backbone: each seed is joined by
\* such an edge to the query node set_query_node created, and each backbone
\* extension is joined by such an edge to the node it extends
C24_BackboneEdgesMarked ==
    \A i \in BackboneRelates :
        LET parent == IF sdone[i - 1].depth = 1 THEN SearchKey
                      ELSE sdone[i].parent_id
        IN  \A c \in sdone[i].children_ids :
                Joined(SearchGraph, c, parent, "is_backbone")

-----------------------------------------------------------------------------
(* A request to the provider that fails inside the search task *)

Failed(st) == 1 \in DOMAIN st /\ st[1] = FAILED

\* The edges the relate calls made so far have asked for
EdgesAsked ==
    UNION {{<<c, sdone[i].parent_id>> : c \in sdone[i].children_ids} :
              i \in {j \in 1..Len(sdone) : sdone[j].op = "relate"}}

\* C22: when a request to the provider fails inside the search task, the
\* task becomes failed with the error recorded and stays so, the status of
\* no other task changes in that step, and the graph keeps every node and
\* edge written before the failure
C22_FailureIsContained ==
    /\ [](Failed(status) =>
             /\ 1 \in DOMAIN errors /\ errors[1] = Exc("DeezerErrorResponse")
             /\ sops = << >>
             /\ EdgesAsked \subseteq DOMAIN SearchGraph.edge)
    /\ [][/\ (~Failed(status) /\ Failed(status')) =>
               /\ graphs' = graphs
               /\ items' = items
               /\ results' = results
               /\ DOMAIN status' = DOMAIN status
               /\ \A t \in DOMAIN status \ {1} : status'[t] = status[t]
          /\ Failed(status) =>
               /\ Failed(status')
               /\ graphs' = graphs
               /\ errors'[1] = errors[1]]_vars

\* The search task has failed after it wrote seeds and their edges, while
\* the other task is running
C22_Witness ==
    /\ Failed(status)
    /\ 2 \in DOMAIN status /\ status[2] = RUNNING
    /\ EdgesAsked # {}
    /\ Len(sdone) > 6

-----------------------------------------------------------------------------
(* The depth of a search *)

\* The add_nodes calls made so far for a backbone extension
ExtensionAdds ==
    {i \in 1..Len(sdone) : /\ sdone[i].op = "add_nodes"
                            /\ sdone[i].is_backbone
                            /\ sdone[i].depth >= 2}
Extended == {i \in ExtensionAdds : sdone[i].items_ # << >>}
Earlier(i) == {j \in ExtensionAdds : j < i}
Latest(S) == CHOOSE j \in S : \A k \in S : k <= j

\* The number of find_related calls that pass the depth test
Levels == IF sinput.max_depth >= 2 THEN sinput.max_depth - 1 ELSE 0

\* C25: a search with max_depth d ends whatever the provider answers: the
\* calls it makes are at most 6 per seed and level, and each call of the
\* thread leaves fewer to make; find_related fetches and writes nothing at a
\* depth above d, so the chain of a seed gets at most d - 1 extension nodes,
\* at the depths 2..d, and the recursion stops at the first step that finds
\* no backbone extension
C25_SearchIsBounded ==
    /\ [](\A i \in 1..Len(sdone) :
             (sdone[i].op = "fetch" /\ sdone[i].kind # "search") =>
                 sdone[i].depth \in 2..sinput.max_depth)
    /\ [](\A i \in ExtensionAdds :
             /\ sdone[i].depth \in 2..sinput.max_depth
             /\ sdone[i].depth > 2 =>
                   /\ Earlier(i) # {}
                   /\ sdone[Latest(Earlier(i))].depth = sdone[i].depth - 1
                   /\ sdone[Latest(Earlier(i))].items_ # << >>)
    /\ [](Cardinality(Extended) <= sinput.catalog.found * Levels)
    /\ [](Len(sdone) + Len(sops) <= 6 + 6 * sinput.catalog.found * Levels)
    /\ [][sdone' # sdone => Len(sops') < Len(sops)]_vars

\* A search of depth 3 has ended with two seeds extended twice each
C25_Witness ==
    /\ sinput.max_depth = 3
    /\ sops = << >>
    /\ Cardinality(Extended) = 4
    /\ \E i \in ExtensionAdds : sdone[i].depth = 3
    /\ 1 \in DOMAIN status /\ status[1] = COMPLETED

-----------------------------------------------------------------------------
(* The stars of a node *)

Calls(kind) ==
    {i \in 1..Len(sdone) : sdone[i].op = "fetch" /\ sdone[i].kind = kind}
StarAdds == {i + 1 : i \in Calls("star")} \cap 1..Len(sdone)
StarRelates == {i + 2 : i \in Calls("star")} \cap 1..Len(sdone)
StarIds == UNION {Ids(sdone[i].items_) : i \in StarAdds}
SeedIds ==
    UNION {Ids(sdone[i].items_) :
              i \in {j \in 1..Len(sdone) : /\ sdone[j].op = "add_nodes"
                                            /\ sdone[j].depth = 1}}

-----------------------------------------------------------------------------
(* The order of the writes of one node *)

\* The graph as it is, and as last published for the task
GraphNow ==
    [nodes |-> nodes_to_dicts(SearchGraph), edges |-> edges_to_dicts(SearchGraph)]
Views ==
    (IF HasGraph(graphs, "s1", SearchKey) THEN {GraphNow} ELSE {})
    \cup (IF 1 \in DOMAIN results THEN {results[1].d} ELSE {})

ShowsStarsOf(view, node_id) ==
    \E e \in view.edges :
        e.to = node_id /\ "hidden" \in DOMAIN e /\ e.hidden = TRUE

\* The relate calls made so far for the backbone extension of the node
ExtensionRelates(node_id) ==
    {i \in BackboneRelates :
        sdone[i - 1].depth >= 2 /\ sdone[i].parent_id = node_id}

ShowsExtension(view, i) ==
    \A c \in sdone[i].children_ids :
        /\ \E n \in view.nodes : n.id = c
        /\ \E e \in view.edges : e.from = c /\ e.to = sdone[i].parent_id

\* C27: the backbone extension of a node and its edge are written before
\* the star items of the node are fetched and written, and neither the graph
\* nor a published snapshot shows stars of a node without the backbone
\* extension of that node, when it has one
C27_ExtensionBeforeStars ==
    /\ \A i \in Calls("star") :
          \E j \in ExtensionRelates(sdone[i].item_id) :
              j < i /\ sdone[j - 2].item_id = sdone[i].item_id
    /\ \A view \in Views :
          \A node_id \in {e.to : e \in view.edges} :
              ShowsStarsOf(view, node_id) =>
                  /\ ExtensionRelates(node_id) # {}
                  /\ \A i \in ExtensionRelates(node_id) : ShowsExtension(view, i)

\* The last published snapshot shows the stars of a node together with its
\* backbone extension
C27_Witness ==
    /\ 1 \in DOMAIN results
    /\ \E node_id \in {e.to : e \in results[1].d.edges} :
          /\ ShowsStarsOf(results[1].d, node_id)
          /\ \E i \in ExtensionRelates(node_id) :
                /\ sdone[i].children_ids # {}
                /\ ShowsExtension(results[1].d, i)

-----------------------------------------------------------------------------
(* The exploration mode of find_related *)

ExpectedKeys ==
    {fargs.backbone_type}
    \cup {fargs.star_types[i] : i \in 1..Len(fargs.star_types)}

\* C21: find_related called with an exploration mode that is a map whose
\* keys are not the backbone type and the star types ends with a validation
\* error, whatever the item, depth and max_depth, and leaves the graph as it
\* was
C21_IllegalMapIsRefused ==
    [][(/\ fargs.f = "none"
        /\ fargs'.f = "find_related"
        /\ fargs.exploration_mode.t = "dict"
        /\ DOMAIN fargs.exploration_mode.d # ExpectedKeys) =>
           /\ fret' = Exc("ValueError")
           /\ graphs' = graphs]_vars

-----------------------------------------------------------------------------
(* The invocations of scale_weights *)

\* C39: scale_weights ends for every list of weights, all zero included, and
\* every target: each invocation that calls scale_weights again does so for
\* a smaller target
C39_EachPassUsesSomething ==
    [][(fargs'.passes > fargs.passes /\ fret' = None) =>
           fargs'.target_sum < fargs.target_sum]_vars

-----------------------------------------------------------------------------
(* The end of a task *)

Ended(t) == Get(status, t, NOT_FOUND) \in {COMPLETED, FAILED}

\* C40: under fair scheduling a task started through Task.run whose target
\* ends reaches completed or failed, and its status does not change after it
\* has reached one of them
C40_TaskEndsOnce ==
    /\ \A t \in TaskIds : (tpc[t] = "create") ~> Ended(t)
    /\ [][\A t \in TaskIds : Ended(t) => status'[t] = status[t]]_vars

\* One task has ended completed and the other failed
C40_Witness ==
    /\ \A t \in TaskIds : tpc[t] = "done"
    /\ \E t \in TaskIds : Get(status, t, NOT_FOUND) = COMPLETED
    /\ \E t \in TaskIds : Get(status, t, NOT_FOUND) = FAILED

-----------------------------------------------------------------------------
(* The query node under a cascading delete *)

-----------------------------------------------------------------------------
(* Polls of a task that was started *)

\* C34: once the call that started the task has returned the task id to its
\* caller, every poll of the id reports created, running, completed or
\* failed, and never not_found
C34_StartedTaskIsKnown ==
    [][\A id \in TaskIds :
          (polled'[id] # polled[id] /\ runReturned[id]) =>
              /\ Polled(id).t = "dict"
              /\ Polled(id).d.status \in {CREATED, RUNNING, COMPLETED, FAILED}]_vars

-----------------------------------------------------------------------------
(* A search started again while the earlier one is running *)

\* The nodes the calls of the second thread have named so far
NamedAgain ==
    {SearchKey}
    \cup UNION {Ids(again.done[i].items_) :
                  i \in {j \in 1..Len(again.done) :
                             again.done[j].op = "add_nodes"}}
    \cup UNION {again.done[i].children_ids \cup {again.done[i].parent_id} :
                  i \in {j \in 1..Len(again.done) :
                             again.done[j].op = "relate"}}

\* C35: when a search on the same keywords is started in the session while
\* the task of an earlier one is running, no call of the earlier task writes
\* into the graph of the new search, and the snapshots of the new task hold
\* only nodes the new task wrote
C35_NewGraphIsNotWrittenByEarlierTask ==
    /\ [][(again.started /\ sdone' # sdone) => graphs' = graphs]_vars
    /\ []((again.started /\ 2 \in DOMAIN results) =>
             {n.id : n \in results[2].d.nodes} \subseteq NamedAgain)

-----------------------------------------------------------------------------
(* The unordered id of an edge *)

\* C37: within a graph two edges have the same unordered_id only if they
\* join the same unordered pair of nodes
C37_UnorderedIdNamesOnePair ==
    \A s \in DOMAIN graphs : \A k \in DOMAIN graphs[s] :
        \A e1, e2 \in DOMAIN graphs[s][k].edge :
            graphs[s][k].edge[e1].unordered_id = graphs[s][k].edge[e2].unordered_id
                => {e1[1], e1[2]} = {e2[1], e2[2]}

-----------------------------------------------------------------------------
(* The best candidates of a search *)

\* The places of the conversions: candidate and place in its conversions
Places ==
    {<<i, j>> : i \in 1..Len(fargs.all_candidates), j \in 1..2} \cap
    {p \in (1..Len(fargs.all_candidates)) \X (1..2) :
        p[2] <= Len(fargs.all_candidates[p[1]].converted)}
IdAt(p) == fargs.all_candidates[p[1]].converted[p[2]]

\* p is visited before q: higher score first, then search order
Before2(p, q) ==
    LET sp == fargs.all_candidates[p[1]].score
        sq == fargs.all_candidates[q[1]].score
    IN  \/ sp > sq
        \/ sp = sq /\ p[1] < q[1]
        \/ p[1] = q[1] /\ p[2] < q[2]

\* The first place an id is met at
FirstPlace(id) ==
    CHOOSE p \in Places :
        IdAt(p) = id /\ \A q \in Places : IdAt(q) = id => (q = p \/ Before2(p, q))

AllIds == {IdAt(p) : p \in Places}

\* C31: _search_best_type returns at most limit items with distinct ids: the
\* first distinct conversions met when the candidates are visited by
\* descending score, equal scores in search order, and all of them when they
\* are fewer than limit
C31_FirstDistinctByScore ==
    (fargs.f = "_search_best_type") =>
        LET r == fret.v
            got == {r[i] : i \in 1..Len(r)}
        IN  /\ Len(r) <= fargs.limit
            /\ \A i, j \in 1..Len(r) : i # j => r[i] # r[j]
            /\ got \subseteq AllIds
            /\ \A i, j \in 1..Len(r) :
                  i < j => Before2(FirstPlace(r[i]), FirstPlace(r[j]))
            /\ \A id \in AllIds \ got :
                  /\ Len(r) = fargs.limit
                  /\ \A i \in 1..Len(r) : Before2(FirstPlace(r[i]), FirstPlace(id))
            /\ Cardinality(AllIds) <= fargs.limit => got = AllIds

\* A candidate with the lower score that comes first in the search gave way
\* to one with the higher score, and the limit cut the result
C31_Witness ==
    /\ fargs.f = "_search_best_type"
    /\ Len(fargs.all_candidates) = 2
    /\ fargs.all_candidates[1].score < fargs.all_candidates[2].score
    /\ fargs.limit = 1
    /\ fargs.all_candidates[1].converted # << >>
    /\ fargs.all_candidates[2].converted # << >>
    /\ Cardinality(AllIds) = 2
    /\ fret.v = <<fargs.all_candidates[2].converted[1]>>
    /\ fret.v # <<fargs.all_candidates[1].converted[1]>>

\* C32: a fetch of related items of one type for an item, by dive or by
\* explore, returns at most limit items, the budget of the type, whatever
\* the number of artists of the item.
C32_FetchWithinBudget ==
    (fargs.f \in {"dive", "explore"} /\ fret.t = "list") =>
        Len(fret.v) <= fargs.limit

\* C33: a fetch with the budget 1 of the backbone extension, by dive or by
\* explore, of any type and for any artists of the item, returns no item or
\* one item when it returns: the assertion on the length of the extension
\* holds whenever it is reached.
C33_BackboneFetchAtMostOne ==
    (fargs.f \in {"dive", "explore"} /\ fargs.limit = 1 /\ fret.t = "list") =>
        Len(fret.v) <= 1

\* An item of two artists that each have two items was explored with the
\* budget 1 and one item came back
C33_Witness ==
    /\ fargs.f = "explore"
    /\ fargs.limit = 1
    /\ fargs.target_type \in {"album", "track"}
    /\ Len(fargs.artists) >= 2
    /\ \A i \in 1..Len(fargs.artists) : fargs.artists[i] = "two"
    /\ fret.t = "list"
    /\ Len(fret.v) = 1

\* C38: fill for a node when the selected types are only the type of the
\* node raises nothing and gives no star node to add.
C38_FillWithoutAlternativeCompletes ==
    (/\ fargs.f = "fill"
     /\ \A i \in 1..Len(fargs.restricted_types) :
           fargs.restricted_types[i] = fargs.item_.item_type) =>
        /\ fret.t # "exc"
        /\ \A i \in 1..Len(sops) :
              sops[i].op = "add_nodes" => sops[i].items_ = << >>

====
